---- MODULE Spec2Model ----
(***************************************************************************)
(* A model of the interactive_chat agent: intent classification, the       *)
(* document query bridge, the slot-filling appointment engine and the turn *)
(* orchestrator (src/agents.py), over the validators and the date resolver *)
(* of src/tools.py, and the session store of the HTTP layer (src/app.py).  *)
(* Python strings are TLA+ strings; the completion service is an input     *)
(* whose reply (or failure) is chosen per call.                            *)
(***************************************************************************)
EXTENDS Integers, Sequences, FiniteSets, TLC

VARIABLES sessions, today, last, clock, http, uploads

vars == <<sessions, today, last, clock, http, uploads>>

(***************************************************************************)
(* Python string primitives.                                               *)
(***************************************************************************)
Char(s, i) == SubSeq(s, i, i)

UpperLetters == "ABCDEFGHIJKLMNOPQRSTUVWXYZ"

LowerLetters == "abcdefghijklmnopqrstuvwxyz"

DigitChars == "0123456789"

\* c in chars, for a one-character string c
IsIn(c, chars) == \E i \in 1..Len(chars) : Char(chars, i) = c

IsLetter(c) == IsIn(c, UpperLetters) \/ IsIn(c, LowerLetters)

IsDigit(c) == IsIn(c, DigitChars)

\* \s of the re module
SpaceChars == " \n\t\r"

IsSpace(c) == IsIn(c, SpaceChars)

\* \w of the re module
IsWordChar(c) == IsLetter(c) \/ IsDigit(c) \/ c = "_"

LowerChar(c) ==
    IF IsIn(c, UpperLetters)
    THEN Char(LowerLetters, CHOOSE i \in 1..Len(UpperLetters) : Char(UpperLetters, i) = c)
    ELSE c

RECURSIVE str_lower(_)
\* str.lower()
str_lower(s) == IF s = "" THEN "" ELSE LowerChar(Char(s, 1)) \o str_lower(SubSeq(s, 2, Len(s)))

RECURSIVE lstrip(_)
lstrip(s) == IF s /= "" /\ IsSpace(Char(s, 1)) THEN lstrip(SubSeq(s, 2, Len(s))) ELSE s

RECURSIVE rstrip(_)
rstrip(s) == IF s /= "" /\ IsSpace(Char(s, Len(s))) THEN rstrip(SubSeq(s, 1, Len(s) - 1)) ELSE s

\* str.strip()
str_strip(s) == rstrip(lstrip(s))

\* `sub in s`
str_in(sub, s) ==
    \E i \in 1..(Len(s) - Len(sub) + 1) : SubSeq(s, i, i + Len(sub) - 1) = sub

\* s.startswith(sub) at position i (1-based)
MatchAt(sub, s, i) == i + Len(sub) - 1 <= Len(s) /\ SubSeq(s, i, i + Len(sub) - 1) = sub

str_endswith(s, sub) == Len(sub) <= Len(s) /\ SubSeq(s, Len(s) - Len(sub) + 1, Len(s)) = sub

\* str.isdigit()
str_isdigit(s) == s /= "" /\ \A i \in 1..Len(s) : IsDigit(Char(s, i))

RECURSIVE RemoveChars(_, _)
\* re.sub of a character class by the empty string; class is the string of its characters
RemoveChars(s, class) ==
    IF s = "" THEN ""
    ELSE (IF IsIn(Char(s, 1), class) THEN "" ELSE Char(s, 1)) \o RemoveChars(SubSeq(s, 2, Len(s)), class)

RECURSIVE RunEnd(_, _, _)
\* the last position of the maximal run of class characters that starts at i
\* (i - 1 when s[i] is not in the class)
RunEnd(s, i, class) ==
    IF i <= Len(s) /\ IsIn(Char(s, i), class) THEN RunEnd(s, i + 1, class) ELSE i - 1

RECURSIVE JoinLines(_)
\* "\n".join(parts)
JoinLines(parts) ==
    IF parts = <<>> THEN ""
    ELSE IF Len(parts) = 1 THEN parts[1]
    ELSE parts[1] \o "\n" \o JoinLines(Tail(parts))

SetMax(S) == CHOOSE x \in S : \A y \in S : y <= x

\* F(value), with value computed once (a Python local variable)
With(value, F(_)) == CHOOSE out \in {F(x) : x \in {value}} : TRUE

SetMin(S) == CHOOSE x \in S : \A y \in S : x <= y

RECURSIVE ParseInt(_)
\* int(s) for a digit string
ParseInt(s) ==
    IF s = "" THEN 0
    ELSE 10 * ParseInt(SubSeq(s, 1, Len(s) - 1))
         + ((CHOOSE i \in 1..10 : Char(DigitChars, i) = Char(s, Len(s))) - 1)

Digit(n) == Char(DigitChars, n + 1)

Pad2(n) == Digit((n \div 10) % 10) \o Digit(n % 10)

Pad4(n) == Digit((n \div 1000) % 10) \o Digit((n \div 100) % 10) \o Pad2(n % 100)

(***************************************************************************)
(* Field validators (src/tools.py).                                        *)
(***************************************************************************)
NameChar(c) == IsLetter(c) \/ IsSpace(c) \/ c \in {".", "-", "'"}

\* validate_name with a pattern that admits letters only
validate_name_letters_only(name) ==
    IF name = "" \/ Len(str_strip(name)) < 2
    THEN [valid |-> FALSE, error |-> "Name must be at least 2 characters long and non-empty."]
    ELSE IF ~(\A i \in 1..Len(name) : IsLetter(Char(name, i)))
    THEN [valid |-> FALSE, error |-> "Name can only contain letters, spaces, and basic punctuation."]
    ELSE [valid |-> TRUE, value |-> str_strip(name)]

validate_name(name) ==
    IF name = "" \/ Len(str_strip(name)) < 2
    THEN [valid |-> FALSE, error |-> "Name must be at least 2 characters long and non-empty."]
    ELSE IF ~(\A i \in 1..Len(name) : NameChar(Char(name, i)))
    THEN [valid |-> FALSE, error |-> "Name can only contain letters, spaces, and basic punctuation."]
    ELSE [valid |-> TRUE, value |-> str_strip(name)]

\* [\s\-\(\)\+]
PhoneSeparators == SpaceChars \o "-()+"

\* validate_phone returning the input instead of the cleaned digits
validate_phone_uncleaned(phone) ==
    LET cleaned_phone == RemoveChars(phone, PhoneSeparators)
    IN  IF ~str_isdigit(cleaned_phone)
        THEN [valid |-> FALSE, error |-> "Phone number must contain only digits."]
        ELSE IF Len(cleaned_phone) < 10 \/ Len(cleaned_phone) > 15
        THEN [valid |-> FALSE, error |-> "Phone number must be between 10 and 15 digits."]
        ELSE [valid |-> TRUE, value |-> phone]

\* validate_phone with the upper limit of the length test excluded
validate_phone_exclusive_upper(phone) ==
    LET cleaned_phone == RemoveChars(phone, PhoneSeparators)
    IN  IF ~str_isdigit(cleaned_phone)
        THEN [valid |-> FALSE, error |-> "Phone number must contain only digits."]
        ELSE IF Len(cleaned_phone) < 10 \/ Len(cleaned_phone) >= 15
        THEN [valid |-> FALSE, error |-> "Phone number must be between 10 and 15 digits."]
        ELSE [valid |-> TRUE, value |-> cleaned_phone]

validate_phone(phone) ==
    LET cleaned_phone == RemoveChars(phone, PhoneSeparators)
    IN  IF ~str_isdigit(cleaned_phone)
        THEN [valid |-> FALSE, error |-> "Phone number must contain only digits."]
        ELSE IF Len(cleaned_phone) < 10 \/ Len(cleaned_phone) > 15
        THEN [valid |-> FALSE, error |-> "Phone number must be between 10 and 15 digits."]
        ELSE [valid |-> TRUE, value |-> cleaned_phone]

\* email_validator.validate_email, as the syntax check of an address token:
\* a dot-atom local part, dot-separated domain labels of letters, digits and
\* inner hyphens, an alphabetic top-level label; the domain is lower-cased.
EmailLocalChars == UpperLetters \o LowerLetters \o DigitChars \o "._%+-"

EmailDomainChars == UpperLetters \o LowerLetters \o DigitChars \o ".-"

DotAtom(s) ==
    /\ s /= ""
    /\ Char(s, 1) /= "."
    /\ Char(s, Len(s)) /= "."
    /\ ~str_in("..", s)

DomainSyntax(d) ==
    /\ DotAtom(d)
    /\ str_in(".", d)
    /\ \A i \in 1..Len(d) : IsIn(Char(d, i), EmailDomainChars)
    /\ Char(d, 1) /= "-"
    /\ Char(d, Len(d)) /= "-"
    /\ ~str_in("-.", d)
    /\ ~str_in(".-", d)
    /\ LET tld == SetMax({i \in 1..Len(d) : Char(d, i) = "."})
       IN  \A i \in (tld + 1)..Len(d) : IsLetter(Char(d, i))

validate_email_address(email) ==
    LET ats == {i \in 1..Len(email) : Char(email, i) = "@"}
        at == SetMin(ats)
        local == SubSeq(email, 1, at - 1)
        domain == SubSeq(email, at + 1, Len(email))
    IN  IF Cardinality(ats) = 1
           /\ DotAtom(local)
           /\ (\A i \in 1..Len(local) : IsIn(Char(local, i), EmailLocalChars))
           /\ DomainSyntax(domain)
        THEN [valid |-> TRUE, value |-> local \o "@" \o str_lower(domain)]
        ELSE [valid |-> FALSE, error |-> "Invalid email format: The email address is not valid."]

(***************************************************************************)
(* The two regular expressions of handle_appointment_booking.  re.findall  *)
(* is leftmost, greedy, backtracking; the code reads only the first match, *)
(* so the result is <<>> or the first match alone.                         *)
(***************************************************************************)
\* \b at the gap before position p
WordBoundary(s, p) ==
    LET before == p - 1 >= 1 /\ p - 1 <= Len(s) /\ IsWordChar(Char(s, p - 1))
        after == p >= 1 /\ p <= Len(s) /\ IsWordChar(Char(s, p))
    IN  before /= after

\* [0-9\s\-\(\)]
PhoneMidChars == DigitChars \o SpaceChars \o "-()"

\* the end of the match of [\+\(]?[0-9][0-9\s\-\(\)]{8,}[0-9] that starts at i, or 0
PhoneMatchEnd(s, i) ==
    LET d == IF IsIn(Char(s, i), "+(") THEN i + 1 ELSE i
        me == RunEnd(s, d + 1, PhoneMidChars)
        ends == {j \in (d + 9)..me : IsDigit(Char(s, j))}
    IN  IF d <= Len(s) /\ IsDigit(Char(s, d)) /\ ends /= {} THEN SetMax(ends) ELSE 0

phone_matches(user_input) ==
    LET starts == {i \in 1..Len(user_input) : PhoneMatchEnd(user_input, i) > 0}
    IN  IF starts = {} THEN <<>>
        ELSE <<SubSeq(user_input, SetMin(starts), PhoneMatchEnd(user_input, SetMin(starts)))>>

\* [A-Z|a-z]
EmailTldChars == UpperLetters \o "|" \o LowerLetters

\* the end of the match of
\* \b[A-Za-z0-9._%+-]+@[A-Za-z0-9.-]+\.[A-Z|a-z]{2,}\b that starts at i, or 0
EmailMatchEnd(s, i) ==
    LET le == RunEnd(s, i, EmailLocalChars)
        ds == le + 2
        de == RunEnd(s, ds, EmailDomainChars)
        TldEnds(p) == {q \in (p + 2)..RunEnd(s, p + 1, EmailTldChars) : WordBoundary(s, q + 1)}
        dots == {p \in (ds + 1)..de : Char(s, p) = "." /\ TldEnds(p) /= {}}
    IN  IF WordBoundary(s, i) /\ le >= i /\ le + 1 <= Len(s) /\ Char(s, le + 1) = "@" /\ dots /= {}
        THEN SetMax(TldEnds(SetMax(dots)))
        ELSE 0

email_matches(user_input) ==
    LET starts == {i \in 1..Len(user_input) : EmailMatchEnd(user_input, i) > 0}
    IN  IF starts = {} THEN <<>>
        ELSE <<SubSeq(user_input, SetMin(starts), EmailMatchEnd(user_input, SetMin(starts)))>>

(***************************************************************************)
(* The date resolver (src/tools.py).  datetime.now() is the day number     *)
(* `today`, counted from 2025-01-01 (a Wednesday); the years 2025 to 2027  *)
(* have 365 days each.  A datetime is the record [year, month, day].       *)
(***************************************************************************)
MonthLengths == <<31, 28, 31, 30, 31, 30, 31, 31, 30, 31, 30, 31>>

MonthNames ==
    <<"January", "February", "March", "April", "May", "June", "July",
      "August", "September", "October", "November", "December">>

WeekdayNames == <<"monday", "tuesday", "wednesday", "thursday", "friday", "saturday", "sunday">>

RECURSIVE DaysBeforeMonth(_)
DaysBeforeMonth(m) == IF m <= 1 THEN 0 ELSE MonthLengths[m - 1] + DaysBeforeMonth(m - 1)

\* datetime.weekday(): Monday is 0
weekday(d) == (d + 2) % 7

\* the datetime of day number d
FromOrdinal(d) ==
    LET doy == d % 365
        m == SetMax({k \in 1..12 : DaysBeforeMonth(k) <= doy})
    IN  [year |-> 2025 + (d \div 365), month |-> m, day |-> doy - DaysBeforeMonth(m) + 1]

\* strftime("%Y-%m-%d")
strftime_iso(dt) == Pad4(dt.year) \o "-" \o Pad2(dt.month) \o "-" \o Pad2(dt.day)

\* strftime("%B %d, %Y")
strftime_long(dt) == MonthNames[dt.month] \o " " \o Pad2(dt.day) \o ", " \o Pad4(dt.year)

\* the start of the leftmost YYYY-MM-DD token of s, or 0
IsoTokenAt(s, i) ==
    /\ i + 9 <= Len(s)
    /\ (i = 1 \/ ~IsDigit(Char(s, i - 1)))
    /\ RunEnd(s, i, DigitChars) = i + 3
    /\ Char(s, i + 4) = "-"
    /\ RunEnd(s, i + 5, DigitChars) = i + 6
    /\ Char(s, i + 7) = "-"
    /\ RunEnd(s, i + 8, DigitChars) = i + 9

\* dateutil's parser.parse(text, fuzzy=True) on the token shapes of the
\* modelled utterances: a text whose only digits are one YYYY-MM-DD token
\* parses to that date; a text without any date token, or with a digit
\* group such as 555-123-4567 (read as a second year), raises ParserError.
dateutil_parse_fuzzy(date_text) ==
    LET isos == {i \in 1..Len(date_text) : IsoTokenAt(date_text, i)}
        i == SetMin(isos)
        digits == {j \in 1..Len(date_text) : IsDigit(Char(date_text, j))}
        y == ParseInt(SubSeq(date_text, i, i + 3))
        m == ParseInt(SubSeq(date_text, i + 5, i + 6))
        d == ParseInt(SubSeq(date_text, i + 8, i + 9))
    IN  IF isos /= {} /\ digits \subseteq ((i..(i + 9)) \ {i + 4, i + 7})
           /\ m \in 1..12 /\ d >= 1 /\ d <= MonthLengths[m]
        THEN [ok |-> TRUE, date |-> [year |-> y, month |-> m, day |-> d]]
        ELSE [ok |-> FALSE, error |-> "Unknown string format: " \o date_text]

\* re.search(r'in\s+(\d+)\s+days?', text): the captured group of the leftmost match, or ""
InDaysGroup(text) ==
    LET DigitsStart(i) == RunEnd(text, i + 2, SpaceChars) + 1
        DigitsEnd(i) == RunEnd(text, DigitsStart(i), DigitChars)
        DayStart(i) == RunEnd(text, DigitsEnd(i) + 1, SpaceChars) + 1
        Matches(i) ==
            /\ MatchAt("in", text, i)
            /\ DigitsStart(i) > i + 2
            /\ DigitsEnd(i) >= DigitsStart(i)
            /\ DayStart(i) > DigitsEnd(i) + 1
            /\ MatchAt("day", text, DayStart(i))
        starts == {i \in 1..Len(text) : Matches(i)}
    IN  IF starts = {} THEN ""
        ELSE SubSeq(text, DigitsStart(SetMin(starts)), DigitsEnd(SetMin(starts)))

\* the `next <weekday>` / `coming <weekday>` branches, in the order of the elif chain
WeekdayRules(text) ==
    {k \in 0..6 : str_in("next " \o WeekdayNames[k + 1], text)
                  \/ str_in("coming " \o WeekdayNames[k + 1], text)}

\* days_ahead with the current day admitted when it bears the weekday
DaysAhead_same_day(k, now) == IF k - weekday(now) < 0 THEN k - weekday(now) + 7 ELSE k - weekday(now)

DaysAhead(k, now) == IF k - weekday(now) <= 0 THEN k - weekday(now) + 7 ELSE k - weekday(now)

DateError(date_text) ==
    [valid |-> FALSE,
     error |-> "Could not parse date from '" \o date_text
               \o "'. Please try formats like 'next Monday', 'tomorrow', 'in 3 days', or 'YYYY-MM-DD'."]

DateOk(dt) == [valid |-> TRUE, value |-> strftime_iso(dt), parsed_date |-> strftime_long(dt)]

FuzzyDate(date_text) ==
    LET parsed == dateutil_parse_fuzzy(date_text)
    IN  IF parsed.ok THEN DateOk(parsed.date) ELSE DateError(date_text)

\* the resolver with "tomorrow" resolved to the current date
extract_date_tomorrow_is_today(date_text, now) ==
    LET date_text_lower == str_strip(str_lower(date_text))
    IN  IF date_text_lower = "today" THEN DateOk(FromOrdinal(now))
        ELSE IF date_text_lower = "tomorrow" THEN DateOk(FromOrdinal(now))
        ELSE IF str_in("next week", date_text_lower) THEN DateOk(FromOrdinal(now + 7))
        ELSE IF str_in("next month", date_text_lower) THEN DateOk(FromOrdinal(now + 30))
        ELSE IF WeekdayRules(date_text_lower) /= {}
        THEN DateOk(FromOrdinal(now + DaysAhead(SetMin(WeekdayRules(date_text_lower)), now)))
        ELSE IF str_in("in", date_text_lower) /\ str_in("day", date_text_lower)
        THEN IF InDaysGroup(date_text_lower) /= ""
             THEN DateOk(FromOrdinal(now + ParseInt(InDaysGroup(date_text_lower))))
             ELSE FuzzyDate(date_text)
        ELSE FuzzyDate(date_text)

\* the resolver with "tomorrow" matched anywhere in the text
extract_date_tomorrow_anywhere(date_text, now) ==
    LET date_text_lower == str_strip(str_lower(date_text))
    IN  IF date_text_lower = "today" THEN DateOk(FromOrdinal(now))
        ELSE IF str_in("tomorrow", date_text_lower) THEN DateOk(FromOrdinal(now + 1))
        ELSE IF str_in("next week", date_text_lower) THEN DateOk(FromOrdinal(now + 7))
        ELSE IF str_in("next month", date_text_lower) THEN DateOk(FromOrdinal(now + 30))
        ELSE IF WeekdayRules(date_text_lower) /= {}
        THEN DateOk(FromOrdinal(now + DaysAhead(SetMin(WeekdayRules(date_text_lower)), now)))
        ELSE IF str_in("in", date_text_lower) /\ str_in("day", date_text_lower)
        THEN IF InDaysGroup(date_text_lower) /= ""
             THEN DateOk(FromOrdinal(now + ParseInt(InDaysGroup(date_text_lower))))
             ELSE FuzzyDate(date_text)
        ELSE FuzzyDate(date_text)

extract_date_from_natural_language(date_text, now) ==
    LET date_text_lower == str_strip(str_lower(date_text))
    IN  IF date_text_lower = "today" THEN DateOk(FromOrdinal(now))
        ELSE IF date_text_lower = "tomorrow" THEN DateOk(FromOrdinal(now + 1))
        ELSE IF str_in("next week", date_text_lower) THEN DateOk(FromOrdinal(now + 7))
        ELSE IF str_in("next month", date_text_lower) THEN DateOk(FromOrdinal(now + 30))
        ELSE IF WeekdayRules(date_text_lower) /= {}
        THEN DateOk(FromOrdinal(now + DaysAhead(SetMin(WeekdayRules(date_text_lower)), now)))
        ELSE IF str_in("in", date_text_lower) /\ str_in("day", date_text_lower)
        THEN IF InDaysGroup(date_text_lower) /= ""
             THEN DateOk(FromOrdinal(now + ParseInt(InDaysGroup(date_text_lower))))
             ELSE FuzzyDate(date_text)
        ELSE FuzzyDate(date_text)

(***************************************************************************)
(* The completion service.  A call llm.invoke(prompt) either returns a     *)
(* text or raises; the outcome is an input of the turn.                    *)
(***************************************************************************)
Reply(text) == [ok |-> TRUE, text |-> text]

Failure(error) == [ok |-> FALSE, error |-> error]

\* the placeholder for the outcome of a call the turn does not make
NotCalled == [ok |-> FALSE, error |-> "not called"]

ServiceError == "Connection refused"

(***************************************************************************)
(* The inputs of the model: utterances, documents, the service's outcomes  *)
(* and the days datetime.now() may fall on.                                *)
(***************************************************************************)
MaxTurns == 3

MaxPairTurns == 3

MaxClassifyTurns == 1

MaxOneShotTurns == 2

MaxDocsTurns == 1

MaxStoreTurns == 2

\* the days datetime.now() is read on: 2025-01-01 (a Wednesday) to 2025-01-07
Days == 0..6

\* a Wednesday, and a Monday (`next Monday` asked for on a Monday)
TurnDays == {0, 5}

Utterances ==
    {"My name is John Doe",
     "Email is john.doe@example.com and phone 555-123-4567",
     "Next Monday would be great"}

PairUtterances == {"I want to book an appointment", "My name is John Doe"}

ClassifierInputs ==
    {"Please schedule a meeting", "I want to book an appointment", "SCHEDULE A MEETING for me",
     "Is my reservation in the notebook?", "What are your business hours?", "My name is John Doe", ""}

\* one utterance that carries all four fields
FullUtterance == "I am John Doe, 555-123-4567, john.doe@example.com, next Monday"

OneShotUtterances == {FullUtterance, "My name is John Doe"}

DocQueries ==
    {"What are your business hours?", "Tell me about services and pricing", "Vacation policy?", ""}

\* one field per utterance, a second phone number, and two fields at once
SlotUtterances ==
    {"My name is John Doe", "My phone is 555-123-4567", "Call me on 555 987 6543",
     "Email is john.doe@example.com", "tomorrow",
     "Email is john.doe@example.com and phone 555-123-4567"}

UserInputs ==
    Utterances \cup PairUtterances \cup ClassifierInputs \cup OneShotUtterances \cup DocQueries
        \cup SlotUtterances

SampleDocument ==
    "Our company offers the following services:\n"
    \o "1. Web Development\n"
    \o "Business Hours: Monday to Friday, 9 AM - 6 PM\n"
    \o "Contact: support@company.com"

Documents == {"", SampleDocument}

\* seven lines, six of them about services
LongDocument ==
    "Services: Web Development\n"
    \o "Services: Mobile Apps\n"
    \o "Pricing is on request\n"
    \o "Services: Cloud Hosting\n"
    \o "Services: Data Analytics\n"
    \o "Services: UX Design\n"
    \o "Services: Support"

DocDocuments == Documents \cup {LongDocument}

Classifications ==
    {Failure(ServiceError), Reply("appointment_booking"), Reply("document_query")}

PairClassifications == Classifications \cup {Reply("I am not sure.")}

ClassifierReplies ==
    Classifications \cup
    {Reply("I am not sure."), Reply(" Appointment_Booking\n"), Reply("DOCUMENT_QUERY"), Reply("booking"), Reply("query"),
     Reply("appointment"), Reply("document"),
     Reply("document_query, not appointment_booking"), Reply("a booking query"), Reply("")}

NameReplies ==
    {Failure(ServiceError), Reply("NOT_FOUND"), Reply("John Doe"), Reply("42"), NotCalled}

Extractions ==
    {Failure(ServiceError), Reply("No relevant information found"),
     Reply("Business Hours: Monday to Friday, 9 AM - 6 PM")}

\* replies with the sentinel phrase of 99 and of 100 characters
Sentinel99 ==
    "No relevant information found. The document lists services, business hours and the contact address."

Sentinel100 ==
    "No relevant information found. The document lists services, business hours and the contact addresses"

\* the sentinel phrase followed by 80 spaces: 109 characters, 29 once stripped
SentinelPadded ==
    "No relevant information found"
    \o "                                        " \o "                                        "

DocExtractions ==
    {Failure(ServiceError),
     Reply("No Relevant Information Found."),
     Reply("Business Hours: Monday to Friday, 9 AM - 6 PM"),
     Reply("  Business Hours: Monday to Friday, 9 AM - 6 PM\n"),
     Reply(Sentinel99), Reply(Sentinel100), Reply(SentinelPadded)}

Generations == {Failure(ServiceError), Reply("We are open Monday to Friday, 9 AM - 6 PM.")}

(***************************************************************************)
(* The document query bridge (src/tools.py).                               *)
(***************************************************************************)
RECURSIVE SplitOn(_, _)
\* s.split(sep) for a one-character separator
SplitOn(s, sep) ==
    LET hits == {i \in 1..Len(s) : Char(s, i) = sep}
    IN  IF hits = {} THEN <<s>>
        ELSE <<SubSeq(s, 1, SetMin(hits) - 1)>> \o SplitOn(SubSeq(s, SetMin(hits) + 1, Len(s)), sep)

RECURSIVE str_split(_)
\* s.split(): the whitespace-separated words
str_split(s) ==
    LET t == lstrip(s)
        spaces == {i \in 1..Len(t) : IsSpace(Char(t, i))}
    IN  IF t = "" THEN <<>>
        ELSE IF spaces = {} THEN <<t>>
        ELSE <<SubSeq(t, 1, SetMin(spaces) - 1)>> \o str_split(SubSeq(t, SetMin(spaces), Len(t)))

NoDocumentsMessage == "No documents available to query. Please upload documents first."

NoRelevantMessage == "No relevant information found in the documents for your query."

\* keyword_search that returns every matching line
keyword_search_uncapped(query, documents_content) ==
    LET query_lower == str_lower(query)
        lines == SplitOn(documents_content, "\n")
        words == str_split(query_lower)
        Relevant(line) == \E w \in 1..Len(words) : str_in(words[w], str_lower(line))
        relevant_lines == SelectSeq(lines, Relevant)
    IN  IF relevant_lines /= <<>> THEN JoinLines(relevant_lines) ELSE NoRelevantMessage

keyword_search(query, documents_content) ==
    LET query_lower == str_lower(query)
        lines == SplitOn(documents_content, "\n")
        words == str_split(query_lower)
        Relevant(line) == \E w \in 1..Len(words) : str_in(words[w], str_lower(line))
        relevant_lines == SelectSeq(lines, Relevant)
    IN  IF relevant_lines /= <<>>
        THEN JoinLines(SubSeq(relevant_lines, 1, IF Len(relevant_lines) < 5 THEN Len(relevant_lines) ELSE 5))
        ELSE NoRelevantMessage

\* query_documents without the test of line 149
query_documents_unguarded(query, documents_content, extraction) ==
    IF extraction.ok
    THEN LET relevant_info == str_strip(extraction.text)
         IN  IF str_in("no relevant information found", str_lower(relevant_info))
                /\ Len(relevant_info) < 100
             THEN NoRelevantMessage
             ELSE relevant_info
    ELSE keyword_search(query, documents_content)

\* query_documents that normalises every reply with the sentinel phrase
query_documents_any_length(query, documents_content, extraction) ==
    IF documents_content = "" THEN NoDocumentsMessage
    ELSE IF extraction.ok
    THEN LET relevant_info == str_strip(extraction.text)
         IN  IF str_in("no relevant information found", str_lower(relevant_info))
             THEN NoRelevantMessage
             ELSE relevant_info
    ELSE keyword_search(query, documents_content)

\* extraction is the outcome of llm.invoke(extraction_prompt); it is read
\* only when documents_content is not empty
query_documents(query, documents_content, extraction) ==
    IF documents_content = "" THEN NoDocumentsMessage
    ELSE IF extraction.ok
    THEN LET relevant_info == str_strip(extraction.text)
         IN  IF str_in("no relevant information found", str_lower(relevant_info))
                /\ Len(relevant_info) < 100
             THEN NoRelevantMessage
             ELSE relevant_info
    ELSE keyword_search(query, documents_content)

(***************************************************************************)
(* The agent graph (src/agents.py).  An AgentState is a record; its field  *)
(* calls lists, in order, the service calls and the parsers the nodes ran. *)
(***************************************************************************)
appointment_keywords == <<"appointment", "book", "schedule", "reservation", "meeting">>

KeywordIntent(raw_user_input) ==
    IF \E k \in 1..Len(appointment_keywords) : str_in(appointment_keywords[k], str_lower(raw_user_input))
    THEN "appointment_booking"
    ELSE "document_query"

\* parse_intent with the keyword scan in the except branch too
parse_intent_keywords_on_error(raw_user_input, classification) ==
    LET intent_response == str_lower(str_strip(classification.text))
    IN  IF ~classification.ok THEN KeywordIntent(raw_user_input)
        ELSE IF str_in("appointment", intent_response) \/ str_in("booking", intent_response)
        THEN "appointment_booking"
        ELSE IF str_in("document", intent_response) \/ str_in("query", intent_response)
        THEN "document_query"
        ELSE KeywordIntent(raw_user_input)

\* parse_intent with the other intent as the default of the except branch
parse_intent_booking_on_error(raw_user_input, classification) ==
    LET intent_response == str_lower(str_strip(classification.text))
    IN  IF ~classification.ok THEN "appointment_booking"
        ELSE IF str_in("appointment", intent_response) \/ str_in("booking", intent_response)
        THEN "appointment_booking"
        ELSE IF str_in("document", intent_response) \/ str_in("query", intent_response)
        THEN "document_query"
        ELSE KeywordIntent(raw_user_input)

\* parse_intent with the two tests of the reply in the other order
parse_intent_document_first(raw_user_input, classification) ==
    LET intent_response == str_lower(str_strip(classification.text))
    IN  IF ~classification.ok THEN "document_query"
        ELSE IF str_in("document", intent_response) \/ str_in("query", intent_response)
        THEN "document_query"
        ELSE IF str_in("appointment", intent_response) \/ str_in("booking", intent_response)
        THEN "appointment_booking"
        ELSE KeywordIntent(raw_user_input)

\* the try/except of classify_intent
parse_intent(raw_user_input, classification) ==
    LET user_input == str_lower(raw_user_input)
        intent_response == str_lower(str_strip(classification.text))
    IN  IF ~classification.ok THEN "document_query"
        ELSE IF str_in("appointment", intent_response) \/ str_in("booking", intent_response)
        THEN "appointment_booking"
        ELSE IF str_in("document", intent_response) \/ str_in("query", intent_response)
        THEN "document_query"
        ELSE IF \E k \in 1..Len(appointment_keywords) : str_in(appointment_keywords[k], user_input)
        THEN "appointment_booking"
        ELSE "document_query"

IntentOf == [u \in UserInputs, c \in ClassifierReplies |-> parse_intent(u, c)]

\* classify_intent that keeps a booking in progress in the booking flow
classify_intent_sticky(state, classification) ==
    [state EXCEPT
        !.intent = IF state.appointment_data /= <<>> THEN "appointment_booking"
                   ELSE IntentOf[state.user_input, classification],
        !.calls = Append(@, "llm:classify_intent")]

classify_intent(state, classification) ==
    [state EXCEPT
        !.intent = IntentOf[state.user_input, classification],
        !.calls = Append(@, "llm:classify_intent")]

RelevantInfoOf ==
    [u \in UserInputs, d \in DocDocuments, e \in Extractions \cup DocExtractions \cup {NotCalled} |->
        query_documents(u, d, e)]

\* handle_document_query that drops the booking in progress
handle_document_query_reset(state, extraction, generation) ==
    [state EXCEPT
        !.appointment_data = <<>>,
        !.response = IF generation.ok THEN generation.text
                     ELSE "I apologize, but I encountered an error: " \o generation.error,
        !.next_action = "complete",
        !.relevant_info =
            RelevantInfoOf[state.user_input, state.documents_content, extraction],
        !.calls = @ \o (IF state.documents_content = "" THEN <<>> ELSE <<"llm:query_documents">>)
                    \o <<"llm:generate_answer">>]

\* handle_document_query without the try/except of lines 94-98
handle_document_query_unhandled(state, extraction, generation) ==
    IF generation.ok
    THEN [state EXCEPT
            !.response = generation.text,
            !.next_action = "complete",
            !.relevant_info = RelevantInfoOf[state.user_input, state.documents_content, extraction],
            !.calls = @ \o (IF state.documents_content = "" THEN <<>> ELSE <<"llm:query_documents">>)
                        \o <<"llm:generate_answer">>]
    ELSE state

handle_document_query(state, extraction, generation) ==
    LET user_query == state.user_input
        documents_content == state.documents_content
        relevant_info == RelevantInfoOf[user_query, documents_content, extraction]
        response ==
            IF generation.ok THEN generation.text
            ELSE "I apologize, but I encountered an error: " \o generation.error
    IN  [state EXCEPT
            !.response = response,
            !.next_action = "complete",
            !.relevant_info = relevant_info,
            !.calls = @ \o (IF documents_content = "" THEN <<>> ELSE <<"llm:query_documents">>)
                        \o <<"llm:generate_answer">>]

required_fields == <<"name", "phone", "email", "date">>

\* `field not in appointment_data or not appointment_data[field]`
FieldMissing(appointment_data, field) ==
    field \notin DOMAIN appointment_data \/ appointment_data[field] = ""

missing_fields(appointment_data) ==
    SelectSeq(required_fields, LAMBDA field : FieldMissing(appointment_data, field))

\* appointment_data[field] = value
SetField(appointment_data, field, value) == (field :> value) @@ appointment_data

Indent12 == "            "

Indent8 == "        "

AlreadyBookedSummary(appointment_data) ==
    "Great! I have all the information needed for your appointment:\n"
    \o Indent12 \o "Name: " \o appointment_data["name"] \o "\n"
    \o Indent12 \o "Phone: " \o appointment_data["phone"] \o "\n"
    \o Indent12 \o "Email: " \o appointment_data["email"] \o "\n"
    \o Indent12 \o "Date: " \o appointment_data["date"] \o "\n"
    \o Indent12 \o "\n"
    \o Indent12 \o "Your appointment has been successfully booked! You will receive a confirmation email shortly.\n"
    \o Indent8

BookedSummary(appointment_data) ==
    "Perfect! I have all the information needed:\n\n"
    \o Indent8 \o "Name: " \o appointment_data["name"] \o "\n"
    \o Indent8 \o "Phone: " \o appointment_data["phone"] \o "\n"
    \o Indent8 \o "Email: " \o appointment_data["email"] \o "\n"
    \o Indent8 \o "Date: " \o appointment_data["date"] \o "\n"
    \o Indent8 \o "\n"
    \o Indent8 \o "Your appointment has been successfully booked!\n"
    \o Indent8

Question ==
    [name |-> "Could you please provide your full name?",
     phone |-> "Could you please provide your phone number?",
     email |-> "Could you please provide your email address?",
     date |-> "When would you like to schedule your appointment? (You can say things like 'next Monday', 'tomorrow', 'in 3 days', etc.)"]

\* NextQuestion with the chain in the order date, email, phone, name
NextQuestion_reversed(missing) ==
    IF \E k \in 1..Len(missing) : missing[k] = "date" THEN Question["date"]
    ELSE IF \E k \in 1..Len(missing) : missing[k] = "email" THEN Question["email"]
    ELSE IF \E k \in 1..Len(missing) : missing[k] = "phone" THEN Question["phone"]
    ELSE IF \E k \in 1..Len(missing) : missing[k] = "name" THEN Question["name"]
    ELSE ""

\* the if/elif chain that asks for one missing field
NextQuestion(missing) ==
    IF \E k \in 1..Len(missing) : missing[k] = "name" THEN Question["name"]
    ELSE IF \E k \in 1..Len(missing) : missing[k] = "phone" THEN Question["phone"]
    ELSE IF \E k \in 1..Len(missing) : missing[k] = "email" THEN Question["email"]
    ELSE IF \E k \in 1..Len(missing) : missing[k] = "date" THEN Question["date"]
    ELSE ""

\* name_extraction that takes the text of a failure for the name
name_extraction_error_as_name(name_reply) ==
    LET extracted_name == str_strip(IF name_reply.ok THEN name_reply.text ELSE name_reply.error)
    IN  IF extracted_name /= "NOT_FOUND" /\ Len(extracted_name) > 0
        THEN validate_name(extracted_name)
        ELSE [valid |-> FALSE, error |-> "NOT_FOUND"]

\* What each extraction step computes from its text alone.
name_extraction(name_reply) ==
    LET extracted_name == str_strip(name_reply.text)
    IN  IF name_reply.ok /\ extracted_name /= "NOT_FOUND" /\ Len(extracted_name) > 0
        THEN validate_name(extracted_name)
        ELSE [valid |-> FALSE, error |-> "NOT_FOUND"]

phone_extraction(user_input) ==
    LET matches == phone_matches(user_input)
    IN  IF matches /= <<>> THEN validate_phone(matches[1])
        ELSE [valid |-> FALSE, error |-> "no match"]

email_extraction(user_input) ==
    LET matches == email_matches(user_input)
    IN  IF matches /= <<>> THEN validate_email_address(matches[1])
        ELSE [valid |-> FALSE, error |-> "no match"]

\* The texts are drawn from finite sets, so the string work is tabulated once.
NameExtractionOf == [r \in NameReplies |-> name_extraction(r)]

PhoneExtractionOf == [u \in UserInputs |-> phone_extraction(u)]

EmailExtractionOf == [u \in UserInputs |-> email_extraction(u)]

DateResultOf == [u \in UserInputs, d \in Days |-> extract_date_from_natural_language(u, d)]

\* Each extraction step maps a record [data, parts, calls] to the next one.
ExtractName(acc, user_input, name_reply) ==
    IF ~FieldMissing(acc.data, "name") THEN acc
    ELSE LET called == [acc EXCEPT !.calls = Append(@, "llm:extract_name")]
             validation == NameExtractionOf[name_reply]
         IN  IF validation.valid
             THEN [called EXCEPT
                      !.data = SetField(@, "name", validation.value),
                      !.parts = Append(@, "Got it! I've recorded your name as " \o validation.value \o ".")]
             ELSE called

\* ExtractPhone that runs whether or not a phone number is recorded
ExtractPhone_overwrites(acc, user_input) ==
    LET called == [acc EXCEPT !.calls = Append(@, "re:phone_pattern")]
        validation == PhoneExtractionOf[user_input]
    IN  IF validation.valid
        THEN [called EXCEPT
                 !.data = SetField(@, "phone", validation.value),
                 !.parts = Append(@, "Phone number recorded: " \o validation.value)]
        ELSE called

ExtractPhone(acc, user_input) ==
    IF ~FieldMissing(acc.data, "phone") THEN acc
    ELSE LET called == [acc EXCEPT !.calls = Append(@, "re:phone_pattern")]
             validation == PhoneExtractionOf[user_input]
         IN  IF validation.valid
             THEN [called EXCEPT
                      !.data = SetField(@, "phone", validation.value),
                      !.parts = Append(@, "Phone number recorded: " \o validation.value)]
             ELSE called

ExtractEmail(acc, user_input) ==
    IF ~FieldMissing(acc.data, "email") THEN acc
    ELSE LET called == [acc EXCEPT !.calls = Append(@, "re:email_pattern")]
             validation == EmailExtractionOf[user_input]
         IN  IF validation.valid
             THEN [called EXCEPT
                      !.data = SetField(@, "email", validation.value),
                      !.parts = Append(@, "Email recorded: " \o validation.value)]
             ELSE called

\* ExtractDate that resolves the date and does not record it
ExtractDate_dropped(acc, user_input, now) ==
    IF ~FieldMissing(acc.data, "date") THEN acc
    ELSE [acc EXCEPT !.calls = Append(@, "extract_date_from_natural_language")]

ExtractDate(acc, user_input, now) ==
    IF ~FieldMissing(acc.data, "date") THEN acc
    ELSE LET called == [acc EXCEPT !.calls = Append(@, "extract_date_from_natural_language")]
             date_result == DateResultOf[user_input, now]
         IN  IF date_result.valid
             THEN [called EXCEPT
                      !.data = SetField(@, "date", date_result.value),
                      !.parts = Append(@, "Date recorded: " \o date_result.parsed_date)]
             ELSE called

\* Extracted that stops after the name
Extracted_name_only(appointment_data, calls, user_input, name_reply, now) ==
    ExtractName([data |-> appointment_data, parts |-> <<>>, calls |-> calls], user_input, name_reply)

\* the four extraction steps, in the order of the code
Extracted(appointment_data, calls, user_input, name_reply, now) ==
    With(With(With(ExtractName([data |-> appointment_data, parts |-> <<>>, calls |-> calls],
                               user_input, name_reply),
                   LAMBDA acc : ExtractPhone(acc, user_input)),
              LAMBDA acc : ExtractEmail(acc, user_input)),
         LAMBDA acc : ExtractDate(acc, user_input, now))

\* BookingReply that does not recompute the missing fields after the extraction
BookingReply_stale(state, acc) ==
    LET missing == missing_fields(state.appointment_data)
        prefix == IF acc.parts /= <<>> THEN JoinLines(acc.parts) \o "\n\n" ELSE ""
    IN  [state EXCEPT
            !.appointment_data = acc.data,
            !.calls = acc.calls,
            !.response = IF missing /= <<>> THEN prefix \o NextQuestion(missing)
                         ELSE BookedSummary(acc.data),
            !.next_action = IF missing /= <<>> THEN "continue" ELSE "complete"]

\* the part of handle_appointment_booking after the extraction
BookingReply(state, acc) ==
    LET missing == missing_fields(acc.data)
        prefix == IF acc.parts /= <<>> THEN JoinLines(acc.parts) \o "\n\n" ELSE ""
    IN  [state EXCEPT
            !.appointment_data = acc.data,
            !.calls = acc.calls,
            !.response = IF missing /= <<>> THEN prefix \o NextQuestion(missing)
                         ELSE BookedSummary(acc.data),
            !.next_action = IF missing /= <<>> THEN "continue" ELSE "complete"]

\* handle_appointment_booking that starts a new booking on a completed record
handle_appointment_booking_autoreset(state, name_reply, now) ==
    With(Extracted(IF missing_fields(state.appointment_data) = <<>> THEN <<>>
                   ELSE state.appointment_data,
                   state.calls, state.user_input, name_reply, now),
         LAMBDA acc : BookingReply(state, acc))

handle_appointment_booking(state, name_reply, now) ==
    IF missing_fields(state.appointment_data) = <<>>
    THEN [state EXCEPT
            !.response = AlreadyBookedSummary(state.appointment_data),
            !.next_action = "complete"]
    ELSE With(Extracted(state.appointment_data, state.calls, state.user_input, name_reply, now),
              LAMBDA acc : BookingReply(state, acc))

route_intent(state) == state.intent

(***************************************************************************)
(* run_agent: one turn of a session, from the initial AgentState through   *)
(* the graph (classify_intent, then the routed handler) to the update of   *)
(* the session.  `last` keeps, per session, what the latest turn returned, *)
(* with the inputs it read and the appointment data it started from.       *)
(***************************************************************************)
NewSession == [appointment_data |-> <<>>, conversation_history |-> <<>>, documents_content |-> ""]

NoTurn ==
    [user_input |-> "", classification |-> NotCalled, name_reply |-> NotCalled,
     extraction |-> NotCalled, generation |-> NotCalled,
     intent |-> "", response |-> "",
     next_action |-> "", calls |-> <<>>, relevant_info |-> "", appointment_before |-> <<>>]

\* the latest request the HTTP layer (src/app.py) served, with the session id
\* it carried, the one it resolved and the status of the response; none
\* before the first.  uploads holds the upload_document calls suspended at
\* the await of line 143.
NoRequest == [request |-> "none", requested |-> "", session_id |-> "", at |-> 0, status |-> 0]

InitialState(user_input, session_data) ==
    [messages |-> <<user_input>>,
     user_input |-> user_input,
     intent |-> "",
     appointment_data |-> session_data.appointment_data,
     conversation_history |-> session_data.conversation_history,
     documents_content |-> session_data.documents_content,
     response |-> "",
     next_action |-> "",
     calls |-> <<>>,
     relevant_info |-> ""]

\* agent_graph.invoke(initial_state)
GraphResult(initial_state, classification, name_reply, extraction, generation, now) ==
    With(classify_intent(initial_state, classification),
         LAMBDA classified :
            IF route_intent(classified) = "document_query"
            THEN handle_document_query(classified, extraction, generation)
            ELSE handle_appointment_booking(classified, name_reply, now))

\* SessionAfter that keeps the latest pair only
SessionAfter_latest_only(session_data, user_input, result) ==
    [session_data EXCEPT
        !.appointment_data = result.appointment_data,
        !.conversation_history = <<[user |-> user_input, assistant |-> result.response]>>]

\* lines 286-291: the session after the turn; its other keys are left alone
SessionAfter(session_data, user_input, result) ==
    [session_data EXCEPT
        !.appointment_data = result.appointment_data,
        !.conversation_history = Append(@, [user |-> user_input, assistant |-> result.response])]

\* what the turn returned, with the inputs it read
Returned(user_input, outcomes, session_data, result) ==
    [user_input |-> user_input,
     classification |-> outcomes.classification,
     name_reply |-> outcomes.name_reply,
     extraction |-> outcomes.extraction,
     generation |-> outcomes.generation,
     intent |-> result.intent,
     response |-> result.response,
     next_action |-> result.next_action,
     calls |-> result.calls,
     relevant_info |-> result.relevant_info,
     appointment_before |-> session_data.appointment_data]

\* the update of the session and the value run_agent returns
Commit(sid, user_input, outcomes, session_data, result) ==
    /\ sessions' = [sessions EXCEPT ![sid] = SessionAfter(session_data, user_input, result)]
    /\ last' = [last EXCEPT ![sid] = Returned(user_input, outcomes, session_data, result)]
    /\ UNCHANGED <<today, clock, http, uploads>>

run_agent(sid, user_input, classification, name_reply, extraction, generation) ==
    \E result \in {GraphResult(InitialState(user_input, sessions[sid]),
                               classification, name_reply, extraction, generation, today)} :
        Commit(sid, user_input,
               [classification |-> classification, name_reply |-> name_reply,
                extraction |-> extraction, generation |-> generation],
               sessions[sid], result)

RECURSIVE TotalTurns(_)
TotalTurns(sids) ==
    IF sids = {} THEN 0
    ELSE LET sid == CHOOSE x \in sids : TRUE
         IN  Len(sessions[sid].conversation_history) + TotalTurns(sids \ {sid})

\* the service outcomes a turn can read: a call that is not made has no outcome
NameOutcomes(sid) ==
    IF FieldMissing(sessions[sid].appointment_data, "name") THEN NameReplies \ {NotCalled}
    ELSE {NotCalled}

ExtractionOutcomes(sid) ==
    IF sessions[sid].documents_content = "" THEN {NotCalled} ELSE Extractions

BookingTurn(sid, inputs, replies) ==
    \E user_input \in inputs, classification \in replies :
        /\ IntentOf[user_input, classification] = "appointment_booking"
        /\ \E name_reply \in NameOutcomes(sid) :
               run_agent(sid, user_input, classification, name_reply, NotCalled, NotCalled)

DocumentTurn(sid, inputs, replies) ==
    \E user_input \in inputs, classification \in replies :
        /\ IntentOf[user_input, classification] = "document_query"
        /\ \E extraction \in ExtractionOutcomes(sid), generation \in Generations :
               run_agent(sid, user_input, classification, NotCalled, extraction, generation)

(***************************************************************************)
(* Spec: one session, with or without a document, over the utterances of   *)
(* a booking conversation.                                                 *)
(***************************************************************************)
Init ==
    /\ \E document \in Documents :
           sessions = [sid \in {"s1"} |-> [NewSession EXCEPT !.documents_content = document]]
    /\ today \in TurnDays
    /\ last = [sid \in {"s1"} |-> NoTurn]
    /\ clock = 0
    /\ http = NoRequest
    /\ uploads = {}

Booking ==
    \E sid \in DOMAIN sessions :
        /\ TotalTurns(DOMAIN sessions) < MaxTurns
        /\ BookingTurn(sid, Utterances, Classifications)

Document ==
    \E sid \in DOMAIN sessions :
        /\ TotalTurns(DOMAIN sessions) < MaxTurns
        /\ DocumentTurn(sid, Utterances, Classifications)

Next == Booking \/ Document

Spec == Init /\ [][Next]_vars

(***************************************************************************)
(* SpecPair: two sessions of one store, the second with a document.        *)
(***************************************************************************)
InitPair ==
    /\ sessions = [sid \in {"s1", "s2"} |->
                      IF sid = "s1" THEN NewSession
                      ELSE [NewSession EXCEPT !.documents_content = SampleDocument]]
    /\ today \in TurnDays
    /\ last = [sid \in {"s1", "s2"} |-> NoTurn]
    /\ clock = 0
    /\ http = NoRequest
    /\ uploads = {}

PairBooking ==
    \E sid \in DOMAIN sessions :
        /\ TotalTurns(DOMAIN sessions) < MaxPairTurns
        /\ BookingTurn(sid, PairUtterances, PairClassifications)

PairDocument ==
    \E sid \in DOMAIN sessions :
        /\ TotalTurns(DOMAIN sessions) < MaxPairTurns
        /\ DocumentTurn(sid, PairUtterances, PairClassifications)

NextPair == PairBooking \/ PairDocument

SpecPair == InitPair /\ [][NextPair]_vars

(***************************************************************************)
(* SpecClassify: the turns of a fresh session over the classifier's inputs *)
(* and the replies the service can give to the classification prompt.      *)
(***************************************************************************)
InitClassify ==
    /\ sessions = [sid \in {"s1"} |-> NewSession]
    /\ today \in TurnDays
    /\ last = [sid \in {"s1"} |-> NoTurn]
    /\ clock = 0
    /\ http = NoRequest
    /\ uploads = {}

ClassifyBooking ==
    \E sid \in DOMAIN sessions :
        /\ TotalTurns(DOMAIN sessions) < MaxClassifyTurns
        /\ BookingTurn(sid, ClassifierInputs, ClassifierReplies)

ClassifyDocument ==
    \E sid \in DOMAIN sessions :
        /\ TotalTurns(DOMAIN sessions) < MaxClassifyTurns
        /\ DocumentTurn(sid, ClassifierInputs, ClassifierReplies)

NextClassify == ClassifyBooking \/ ClassifyDocument

SpecClassify == InitClassify /\ [][NextClassify]_vars

(***************************************************************************)
(* SpecOneShot: a fresh session over an utterance that carries all four    *)
(* fields.                                                                 *)
(***************************************************************************)
OneShotBooking ==
    \E sid \in DOMAIN sessions :
        /\ TotalTurns(DOMAIN sessions) < MaxOneShotTurns
        /\ BookingTurn(sid, OneShotUtterances, Classifications)

OneShotDocument ==
    \E sid \in DOMAIN sessions :
        /\ TotalTurns(DOMAIN sessions) < MaxOneShotTurns
        /\ DocumentTurn(sid, OneShotUtterances, Classifications)

NextOneShot == OneShotBooking \/ OneShotDocument

SpecOneShot == InitClassify /\ [][NextOneShot]_vars

(***************************************************************************)
(* SpecDocs: document queries of one session, with no document, a short    *)
(* document or a long one, over the replies the service can give to the    *)
(* extraction prompt.                                                      *)
(***************************************************************************)
InitDocs ==
    /\ \E document \in DocDocuments :
           sessions = [sid \in {"s1"} |-> [NewSession EXCEPT !.documents_content = document]]
    /\ today \in TurnDays
    /\ last = [sid \in {"s1"} |-> NoTurn]
    /\ clock = 0
    /\ http = NoRequest
    /\ uploads = {}

DocsQuery ==
    \E sid \in DOMAIN sessions :
        /\ TotalTurns(DOMAIN sessions) < MaxDocsTurns
        /\ \E user_input \in DocQueries, classification \in Classifications :
               /\ IntentOf[user_input, classification] = "document_query"
               /\ \E extraction \in (IF sessions[sid].documents_content = "" THEN {NotCalled}
                                     ELSE DocExtractions),
                     generation \in Generations :
                      run_agent(sid, user_input, classification, NotCalled, extraction, generation)

NextDocs == DocsQuery

SpecDocs == InitDocs /\ [][NextDocs]_vars

(***************************************************************************)
(* The session store of the HTTP layer (src/app.py).  A stored session has *)
(* the three keys run_agent reads and the two timestamps; clock is         *)
(* datetime.now() in seconds, and a handler runs at one instant.           *)
(***************************************************************************)
SESSION_TIMEOUT == 3600

\* timedelta.seconds of a non-negative timedelta of whole seconds: the
\* seconds within the day, the days being a separate attribute
timedelta_seconds(delta) == delta % 86400

\* the test of line 74
Expired(data, current_time) ==
    timedelta_seconds(current_time - data.last_accessed) > SESSION_TIMEOUT

\* the store once cleanup_old_sessions has run at current_time
cleanup_old_sessions(store, current_time) ==
    [sid \in {x \in DOMAIN store : ~Expired(store[x], current_time)} |-> store[sid]]

\* the session ids uuid4 hands out, in the order it hands them out
SessionIds == <<"s1", "s2", "s3">>

\* the ids given out so far; uuid4 never repeats one
IssuedIds == DOMAIN last

\* no session id in the request
NoSessionId == ""

StoredSession(now) ==
    [appointment_data |-> <<>>, conversation_history |-> <<>>, documents_content |-> "",
     created_at |-> now, last_accessed |-> now]

\* get_or_create_session that hands a request without a known id a session
\* that is already in the store
get_or_create_session_first_found(store, session_id, new_session_id, now) ==
    IF session_id /= NoSessionId /\ session_id \in DOMAIN store
    THEN [session_id |-> session_id,
          store |-> [store EXCEPT ![session_id].last_accessed = now]]
    ELSE IF DOMAIN store /= {}
    THEN [session_id |-> CHOOSE sid \in DOMAIN store : TRUE,
          store |-> [store EXCEPT ![CHOOSE sid \in DOMAIN store : TRUE].last_accessed = now]]
    ELSE [session_id |-> new_session_id,
          store |-> (new_session_id :> StoredSession(now)) @@ store]

\* the session id get_or_create_session returns and the store it leaves
get_or_create_session(store, session_id, new_session_id, now) ==
    IF session_id /= NoSessionId /\ session_id \in DOMAIN store
    THEN [session_id |-> session_id,
          store |-> [store EXCEPT ![session_id].last_accessed = now]]
    ELSE [session_id |-> new_session_id,
          store |-> (new_session_id :> StoredSession(now)) @@ store]

\* the instants at which requests arrive: up to the timeout, one second past
\* it, and more than a day later
Instants == {0, 3600, 3601, 86500, 90101}

StoreMessages == {"My name is John Doe"}

StoreClassifications == {Reply("appointment_booking"), Reply("document_query")}

\* POST /chat
chat(session_id, message, classification, name_reply, extraction, generation) ==
    /\ Cardinality(IssuedIds) < Len(SessionIds)
    /\ \E got \in {get_or_create_session(cleanup_old_sessions(sessions, clock), session_id,
                                          SessionIds[Cardinality(IssuedIds) + 1], clock)} :
         \E result \in {GraphResult(InitialState(message, got.store[got.session_id]),
                                    classification, name_reply, extraction, generation, today)} :
            \* the name call has an outcome exactly when the turn makes it
            /\ result.intent = "appointment_booking" =>
                   (name_reply = NotCalled <=>
                        ~FieldMissing(got.store[got.session_id].appointment_data, "name"))
            /\ sessions' =
                   [got.store EXCEPT ![got.session_id] =
                       [SessionAfter(got.store[got.session_id], message, result)
                            EXCEPT !.last_accessed = clock]]
            /\ last' = (got.session_id :>
                           Returned(message,
                                    [classification |-> classification, name_reply |-> name_reply,
                                     extraction |-> extraction, generation |-> generation],
                                    got.store[got.session_id], result)) @@ last
            /\ http' = [request |-> "chat", requested |-> session_id,
                        session_id |-> got.session_id, at |-> clock, status |-> 200]
            /\ UNCHANGED <<today, clock, uploads>>

\* GET /sessions
list_sessions ==
    /\ sessions' = cleanup_old_sessions(sessions, clock)
    /\ http' = [request |-> "list", requested |-> NoSessionId, session_id |-> NoSessionId,
                at |-> clock, status |-> 200]
    /\ UNCHANGED <<today, last, clock, uploads>>

\* DELETE /sessions/{session_id}; a session that is not in the store gives 404
delete_session(session_id) ==
    /\ session_id \in DOMAIN sessions
    /\ sessions' = [sid \in DOMAIN sessions \ {session_id} |-> sessions[sid]]
    /\ http' = [request |-> "delete", requested |-> session_id, session_id |-> session_id,
                at |-> clock, status |-> 200]
    /\ UNCHANGED <<today, last, clock, uploads>>

\* an uploaded file: UTF-8 text, or bytes that do not decode
UploadFiles == {[utf8 |-> TRUE, text |-> SampleDocument], [utf8 |-> FALSE, text |-> ""]}

\* POST /upload-document up to the await of line 143: the session is resolved
\* (no cleanup runs) and the handler is suspended reading the file
upload_document_begin(session_id, file) ==
    /\ Cardinality(IssuedIds) < Len(SessionIds)
    /\ \E got \in {get_or_create_session(sessions, session_id,
                                          SessionIds[Cardinality(IssuedIds) + 1], clock)} :
           /\ sessions' = got.store
           /\ last' = IF got.session_id \in DOMAIN last THEN last
                      ELSE (got.session_id :> NoTurn) @@ last
           /\ uploads' = uploads \cup {[requested |-> session_id, session_id |-> got.session_id,
                                        file |-> file]}
    /\ UNCHANGED <<today, clock, http>>

\* lines 143-158, the handler resumed with the content read: a file that
\* does not decode gives 400; the write of line 147 looks the session up in
\* the store again, and the KeyError of a session no longer there is caught
\* at line 157 and gives 500
upload_document_resume(upload) ==
    /\ upload \in uploads
    /\ uploads' = uploads \ {upload}
    /\ IF ~upload.file.utf8
       THEN /\ sessions' = sessions
            /\ http' = [request |-> "upload", requested |-> upload.requested,
                        session_id |-> upload.session_id, at |-> clock, status |-> 400]
       ELSE IF upload.session_id \in DOMAIN sessions
       THEN /\ sessions' = [sessions EXCEPT
                                ![upload.session_id].documents_content = upload.file.text,
                                ![upload.session_id].last_accessed = clock]
            /\ http' = [request |-> "upload", requested |-> upload.requested,
                        session_id |-> upload.session_id, at |-> clock, status |-> 200]
       ELSE /\ sessions' = sessions
            /\ http' = [request |-> "upload", requested |-> upload.requested,
                        session_id |-> upload.session_id, at |-> clock, status |-> 500]
    /\ UNCHANGED <<today, last, clock>>

(***************************************************************************)
(* SpecStore: the store from empty, under chat, list and delete requests   *)
(* arriving at the instants of Instants.                                   *)
(***************************************************************************)
InitStore ==
    /\ sessions = <<>>
    /\ today = 0
    /\ last = <<>>
    /\ clock = 0
    /\ http = NoRequest
    /\ uploads = {}

StoreChat ==
    \E session_id \in IssuedIds \cup {NoSessionId}, message \in StoreMessages,
       classification \in StoreClassifications :
        /\ TotalTurns(DOMAIN sessions) < MaxStoreTurns
        /\ IF IntentOf[message, classification] = "appointment_booking"
           THEN \E name_reply \in {Reply("John Doe"), NotCalled} :
                    chat(session_id, message, classification, name_reply, NotCalled, NotCalled)
           ELSE \E generation \in Generations :
                    chat(session_id, message, classification, NotCalled, NotCalled, generation)

StoreList == list_sessions

StoreDelete == \E session_id \in DOMAIN sessions : delete_session(session_id)

\* time passes between two requests
StoreAdvance ==
    \E t \in Instants :
        /\ t > clock
        /\ clock' = t
        /\ today' = t \div 86400
        /\ UNCHANGED <<sessions, last, http, uploads>>

NextStore == StoreChat \/ StoreList \/ StoreDelete \/ StoreAdvance

SpecStore == InitStore /\ [][NextStore]_vars

(***************************************************************************)
(* SpecUpload: the store from empty, with document uploads suspended at    *)
(* their await while chat, list and delete requests are served.            *)
(***************************************************************************)
MaxUploadTurns == 2

\* the turns recorded in the store and the uploads in flight
Workload == TotalTurns(DOMAIN sessions) + Cardinality(uploads)

\* a request arrives at once, or more than the timeout later
UploadInstants == {0, 3601}

UploadBegin ==
    \E session_id \in IssuedIds \cup {NoSessionId}, file \in UploadFiles :
        /\ Workload < MaxUploadTurns
        /\ upload_document_begin(session_id, file)

UploadResume == \E upload \in uploads : upload_document_resume(upload)

\* the chat requests are booking turns
UploadChat ==
    \E session_id \in IssuedIds \cup {NoSessionId}, message \in StoreMessages,
       name_reply \in {Reply("John Doe"), NotCalled} :
        /\ Workload < MaxUploadTurns
        /\ chat(session_id, message, Reply("appointment_booking"), name_reply,
                NotCalled, NotCalled)

UploadList == list_sessions

UploadDelete == \E session_id \in DOMAIN sessions : delete_session(session_id)

UploadAdvance ==
    \E t \in UploadInstants :
        /\ t > clock
        /\ clock' = t
        /\ today' = t \div 86400
        /\ UNCHANGED <<sessions, last, http, uploads>>

NextUpload ==
    UploadBegin \/ UploadResume \/ UploadChat \/ UploadList \/ UploadDelete \/ UploadAdvance

SpecUpload == InitStore /\ [][NextUpload]_vars

(***************************************************************************)
(* SpecSlots: one session from no data, over utterances that give one      *)
(* field, two fields, or a second value for a field already recorded.      *)
(***************************************************************************)
MaxSlotTurns == 3

OpeningHoursQuery == "What are your business hours?"

OpeningHoursAnswer == Reply("We are open Monday to Friday, 9 AM - 6 PM.")

InitSlots ==
    /\ sessions = [sid \in {"s1"} |-> NewSession]
    /\ today \in TurnDays
    /\ last = [sid \in {"s1"} |-> NoTurn]
    /\ clock = 0
    /\ http = NoRequest
    /\ uploads = {}

SlotBooking ==
    \E sid \in DOMAIN sessions, user_input \in SlotUtterances,
       name_reply \in {Reply("John Doe"), Reply("NOT_FOUND"), NotCalled} :
        /\ TotalTurns(DOMAIN sessions) < MaxSlotTurns
        /\ name_reply = NotCalled <=> ~FieldMissing(sessions[sid].appointment_data, "name")
        /\ run_agent(sid, user_input, Reply("appointment_booking"), name_reply,
                     NotCalled, NotCalled)

SlotDocument ==
    \E sid \in DOMAIN sessions :
        /\ TotalTurns(DOMAIN sessions) < MaxSlotTurns
        /\ run_agent(sid, OpeningHoursQuery, Reply("document_query"), NotCalled, NotCalled,
                     OpeningHoursAnswer)

NextSlots == SlotBooking \/ SlotDocument

SpecSlots == InitSlots /\ [][NextSlots]_vars

(***************************************************************************)
(* SpecProgress: a user who answers each question: every booking utterance *)
(* carries a valid value for the first missing field, the one the previous *)
(* response asked for, and the service answers the name extraction;        *)
(* document turns come in between.                                         *)
(***************************************************************************)
MaxProgressTurns == 5

\* the utterance (with the service's reply, for the name) gives the field a valid value
Answers(user_input, name_reply, field, now) ==
    IF field = "name" THEN user_input = "My name is John Doe" /\ name_reply = Reply("John Doe")
    ELSE /\ name_reply = NotCalled
         /\ IF field = "phone" THEN PhoneExtractionOf[user_input].valid
            ELSE IF field = "email" THEN EmailExtractionOf[user_input].valid
            ELSE DateResultOf[user_input, now].valid

ProgressBooking ==
    \E sid \in DOMAIN sessions, user_input \in SlotUtterances,
       name_reply \in {Reply("John Doe"), NotCalled} :
        /\ TotalTurns(DOMAIN sessions) < MaxProgressTurns
        /\ IF missing_fields(sessions[sid].appointment_data) = <<>> THEN name_reply = NotCalled
           ELSE Answers(user_input, name_reply,
                        missing_fields(sessions[sid].appointment_data)[1], today)
        /\ run_agent(sid, user_input, Reply("appointment_booking"), name_reply,
                     NotCalled, NotCalled)

ProgressDocument ==
    \E sid \in DOMAIN sessions :
        /\ TotalTurns(DOMAIN sessions) < MaxProgressTurns
        /\ run_agent(sid, OpeningHoursQuery, Reply("document_query"), NotCalled, NotCalled,
                     OpeningHoursAnswer)

NextProgress == ProgressBooking \/ ProgressDocument

SpecProgress == InitSlots /\ [][NextProgress]_vars

(***************************************************************************)
(* SpecValidators: one call of validate_phone or validate_name on a        *)
(* written phone number or name; last is the call, with its argument and   *)
(* what it returned.                                                       *)
(***************************************************************************)
MaxPhoneDigits == 17

DigitString == "12345678901234567890"

\* the digits of a phone number, none to MaxPhoneDigits of them
PhoneDigits == {SubSeq(DigitString, 1, n) : n \in 0..MaxPhoneDigits}

\* what is written before, between and after the groups of three digits
PhoneLeads == {"", "+", "(", "+ ("}

PhoneGroupSeparators == {"", "-", " ", ") ", ".", "x"}

PhoneTrails == {"", " ", ")", " ext"}

RECURSIVE Grouped(_, _)
\* digits in groups of three with sep between the groups
Grouped(digits, sep) ==
    IF Len(digits) <= 3 THEN digits
    ELSE SubSeq(digits, 1, 3) \o sep \o Grouped(SubSeq(digits, 4, Len(digits)), sep)

WrittenPhone(lead, digits, sep, trail) == lead \o Grouped(digits, sep) \o trail

\* names without surrounding whitespace, and the whitespace around them
NameCores ==
    {"", "A", "Al", "Li", "John Doe", "Mary-Jane O'Neil Jr.", ".-", "J0hn", "John_Doe",
     "John@Doe", "John  Doe", "A1", "7", "José García", "Zoë"}

NamePads == {"", " ", "  ", "\t", "\n"}

WrittenName(lead, core, trail) == lead \o core \o trail

NoCall == [function |-> "none"]

InitValidators ==
    /\ sessions = <<>>
    /\ today = 0
    /\ last = NoCall
    /\ clock = 0
    /\ http = NoRequest
    /\ uploads = {}

ValidatePhone ==
    /\ last = NoCall
    /\ \E lead \in PhoneLeads, digits \in PhoneDigits, sep \in PhoneGroupSeparators,
          trail \in PhoneTrails :
           \E result \in {validate_phone(WrittenPhone(lead, digits, sep, trail))} :
               last' = [function |-> "validate_phone", lead |-> lead, digits |-> digits,
                        sep |-> sep, trail |-> trail,
                        input |-> WrittenPhone(lead, digits, sep, trail), result |-> result]
    /\ UNCHANGED <<sessions, today, clock, http, uploads>>

ValidateName ==
    /\ last = NoCall
    /\ \E lead \in NamePads, core \in NameCores, trail \in NamePads :
           \E result \in {validate_name(WrittenName(lead, core, trail))} :
               last' = [function |-> "validate_name", lead |-> lead, core |-> core,
                        trail |-> trail, input |-> WrittenName(lead, core, trail),
                        result |-> result]
    /\ UNCHANGED <<sessions, today, clock, http, uploads>>

NextValidators == ValidatePhone \/ ValidateName

SpecValidators == InitValidators /\ [][NextValidators]_vars

(***************************************************************************)
(* SpecDates: one call of extract_date_from_natural_language, on a day of  *)
(* ReferenceDays, on a date phrase; last is the call.                      *)
(***************************************************************************)
MaxReferenceDay == 6

\* the last days of January, February, November 2025, of 2025 and of 2026
BoundaryDays == {30, 58, 333, 364, 729}

\* every weekday, and the ends of months and years
ReferenceDays == (0..MaxReferenceDay) \cup BoundaryDays

TodayWords == {"today", "Today", " today\n"}

TomorrowWords == {"tomorrow", " Tomorrow ", "TOMORROW"}

\* "tomorrow" and "today" inside a longer utterance
TomorrowSentences ==
    {"Schedule it for tomorrow", "How about tomorrow?", "tomorrow morning", "Maybe today"}

\* phrases of two rules, with the number of days the first matching rule adds
RulePairs ==
    {<<"next week or next month", 7>>, <<"next month or next week", 7>>,
     <<"next month, say next friday", 30>>, <<"in 3 days or next month", 30>>,
     <<"next week", 7>>, <<"Next Month", 30>>, <<"in 3 days", 3>>, <<"In 10 Days", 10>>}

DateTexts ==
    TodayWords \cup TomorrowWords \cup TomorrowSentences \cup {pair[1] : pair \in RulePairs}
        \cup {"2025-03-15", "someday"}

\* the weekdays as a user writes them, Monday first
WrittenWeekdays ==
    <<"Monday", "tuesday", "WEDNESDAY", "Thursday", "friday", "Saturday", "sunday">>

WeekdayWords == {"next ", "coming ", "Next ", "COMING "}

WeekdayLeads == {"", "How about ", "next week or ", "coming wednesday or "}

WeekdayTrails == {"", " at noon?"}

WrittenWeekdayPhrase(lead, word, k, trail) == lead \o word \o WrittenWeekdays[k + 1] \o trail

InitDates ==
    /\ sessions = <<>>
    /\ today \in ReferenceDays
    /\ last = NoCall
    /\ clock = 0
    /\ http = NoRequest
    /\ uploads = {}

ResolveDate ==
    /\ last = NoCall
    /\ \E date_text \in DateTexts :
           \E result \in {extract_date_from_natural_language(date_text, today)} :
               last' = [function |-> "extract_date_from_natural_language", kind |-> "phrase",
                        input |-> date_text, result |-> result]
    /\ UNCHANGED <<sessions, today, clock, http, uploads>>

ResolveWeekday ==
    /\ last = NoCall
    /\ \E lead \in WeekdayLeads, word \in WeekdayWords, k \in 0..6, trail \in WeekdayTrails :
           \E result \in {extract_date_from_natural_language(
                                WrittenWeekdayPhrase(lead, word, k, trail), today)} :
               last' = [function |-> "extract_date_from_natural_language", kind |-> "weekday",
                        lead |-> lead, word |-> word, asked |-> k, trail |-> trail,
                        input |-> WrittenWeekdayPhrase(lead, word, k, trail), result |-> result]
    /\ UNCHANGED <<sessions, today, clock, http, uploads>>

NextDates == ResolveDate \/ ResolveWeekday

SpecDates == InitDates /\ [][NextDates]_vars

(***************************************************************************)
(* Properties.                                                             *)
(***************************************************************************)
Complete(appointment_data) == missing_fields(appointment_data) = <<>>

\* this step is a turn of session sid
TurnTaken(sid) ==
    Len(sessions'[sid].conversation_history) = Len(sessions[sid].conversation_history) + 1

\* the latest turn of sid was a booking turn / a document turn
BookingTurnDone(sid) == last[sid].intent = "appointment_booking"

DocumentTurnDone(sid) == last[sid].intent = "document_query"

\* the number of occurrences of a question text in a response
QuestionCount(response) ==
    Cardinality({<<f, i>> \in {"name", "phone", "email", "date"} \X (1..Len(response)) :
                    MatchAt(Question[f], response, i)})

JohnDoeUtterance == "My name is John Doe"

EmailPhoneUtterance == "Email is john.doe@example.com and phone 555-123-4567"

\* C1: once all four fields are present and non-empty, every step leaves the
\* session's appointment data unchanged, and every booking turn on it signals
\* "complete" and returns the confirmation summary after no other call than the
\* classification (no name extraction, no phone, email or date parsing).
C1_CompleteIsTerminal ==
    [][\A sid \in DOMAIN sessions :
          Complete(sessions[sid].appointment_data) =>
              /\ sessions'[sid].appointment_data = sessions[sid].appointment_data
              /\ (TurnTaken(sid) /\ last'[sid].intent = "appointment_booking") =>
                     /\ last'[sid].next_action = "complete"
                     /\ last'[sid].response = AlreadyBookedSummary(sessions[sid].appointment_data)
                     /\ last'[sid].calls = <<"llm:classify_intent">>]_vars

C1_Witness ==
    \E sid \in DOMAIN sessions :
        /\ BookingTurnDone(sid)
        /\ Complete(last[sid].appointment_before)
        /\ last[sid].next_action = "complete"
        /\ Len(sessions[sid].conversation_history) >= 3

\* C2: a booking turn that ends with a field still missing signals "continue"
\* and its response ends with the question for the first missing field in the
\* order name, phone, email, date; the response holds exactly one question.
C2_OneQuestionForFirstMissing ==
    \A sid \in DOMAIN sessions :
        (BookingTurnDone(sid) /\ ~Complete(sessions[sid].appointment_data)) =>
            /\ last[sid].next_action = "continue"
            /\ str_endswith(last[sid].response,
                            Question[missing_fields(sessions[sid].appointment_data)[1]])
            /\ QuestionCount(last[sid].response) = 1

C2_Witness ==
    \E sid \in DOMAIN sessions :
        /\ BookingTurnDone(sid)
        /\ DOMAIN sessions[sid].appointment_data = {"name", "date"}
        /\ Len(missing_fields(sessions[sid].appointment_data)) = 2
        /\ str_endswith(last[sid].response, Question["phone"])

\* C3: after a booking turn, next_action is "complete" exactly when all four
\* fields are present and non-empty in the resulting appointment data, and
\* "continue" otherwise.
C3_CompleteIffAllFields ==
    \A sid \in DOMAIN sessions :
        BookingTurnDone(sid) =>
            /\ last[sid].next_action \in {"complete", "continue"}
            /\ last[sid].next_action = "complete" <=> Complete(sessions[sid].appointment_data)

C3_Witness ==
    \E sid \in DOMAIN sessions :
        /\ BookingTurnDone(sid)
        /\ ~Complete(last[sid].appointment_before)
        /\ Complete(sessions[sid].appointment_data)
        /\ last[sid].next_action = "complete"

\* C4: a turn classified as document_query leaves the session's appointment
\* data as it was before the turn, so the question a booking turn would ask
\* next is the same.
C4_DocumentTurnKeepsAppointmentData ==
    \A sid \in DOMAIN sessions :
        DocumentTurnDone(sid) =>
            /\ sessions[sid].appointment_data = last[sid].appointment_before
            /\ NextQuestion(missing_fields(sessions[sid].appointment_data))
                   = NextQuestion(missing_fields(last[sid].appointment_before))

C4_Witness ==
    \E sid \in DOMAIN sessions :
        /\ DocumentTurnDone(sid)
        /\ last[sid].appointment_before /= <<>>
        /\ ~Complete(last[sid].appointment_before)
        /\ Len(sessions[sid].conversation_history) >= 2

\* C5: two sessions whose latest turns read the same message and the same
\* reply (or failure) of the classification call got the same intent,
\* whatever their appointment data, history and documents.
C5_IntentDependsOnMessageAndReply ==
    \A a \in DOMAIN sessions, b \in DOMAIN sessions :
        (/\ last[a].intent /= ""
         /\ last[b].intent /= ""
         /\ last[a].user_input = last[b].user_input
         /\ last[a].classification = last[b].classification)
            => last[a].intent = last[b].intent

C5_Witness ==
    \E a \in DOMAIN sessions, b \in DOMAIN sessions :
        /\ last[a].intent /= ""
        /\ last[a].intent = last[b].intent
        /\ last[a].user_input = last[b].user_input
        /\ last[a].classification = last[b].classification
        /\ last[a].appointment_before /= last[b].appointment_before
        /\ Len(sessions[a].conversation_history) /= Len(sessions[b].conversation_history)
        /\ sessions[a].documents_content /= sessions[b].documents_content

MentionsScheduleAMeeting(user_input) == str_in("schedule a meeting", str_lower(user_input))

\* the reply holds none of the four verdict words
NoVerdict(classification) ==
    LET reply == str_lower(classification.text)
    IN  /\ ~str_in("appointment", reply)
        /\ ~str_in("booking", reply)
        /\ ~str_in("document", reply)
        /\ ~str_in("query", reply)

\* C6 as stated: with the classification call failing, an input that contains
\* "schedule a meeting" is classified appointment_booking.
C6_AsStated ==
    \A sid \in DOMAIN sessions :
        (/\ last[sid].intent /= ""
         /\ ~last[sid].classification.ok
         /\ MentionsScheduleAMeeting(last[sid].user_input))
            => last[sid].intent = "appointment_booking"

\* C6, amended: an input that contains "schedule a meeting" is classified
\* document_query when the classification call fails; the keyword fallback
\* classifies it appointment_booking when the call returns a reply that holds
\* none of the four verdict words.
C6_KeywordFallbackOnlyOnReply ==
    \A sid \in DOMAIN sessions :
        (last[sid].intent /= "" /\ MentionsScheduleAMeeting(last[sid].user_input)) =>
            IF ~last[sid].classification.ok THEN last[sid].intent = "document_query"
            ELSE NoVerdict(last[sid].classification) => last[sid].intent = "appointment_booking"

C6_Witness ==
    \E sid \in DOMAIN sessions :
        /\ MentionsScheduleAMeeting(last[sid].user_input)
        /\ last[sid].classification = Failure(ServiceError)
        /\ last[sid].intent = "document_query"

\* C7: when the classification call raises, the turn still completes and its
\* intent is document_query, for every user input.
C7_FailureDefaultsToDocumentQuery ==
    \A sid \in DOMAIN sessions :
        (last[sid].calls /= <<>> /\ ~last[sid].classification.ok) =>
            /\ last[sid].intent = "document_query"
            /\ last[sid].next_action = "complete"
            /\ Len(sessions[sid].conversation_history) > 0

C7_Witness ==
    \E sid \in DOMAIN sessions :
        /\ last[sid].classification = Failure(ServiceError)
        /\ last[sid].user_input = "I want to book an appointment"
        /\ last[sid].intent = "document_query"

HasAppointmentKeyword(user_input) ==
    \E keyword \in {"appointment", "book", "schedule", "reservation", "meeting"} :
        str_in(keyword, str_lower(user_input))

\* C8: when the classification call returns a reply, the intent is
\* appointment_booking if the lower-cased reply contains "appointment" or
\* "booking"; otherwise document_query if it contains "document" or "query";
\* otherwise appointment_booking if the lower-cased input contains one of the
\* five keywords and document_query if not.
C8_ReplyParsedInPriorityOrder ==
    \A sid \in DOMAIN sessions :
        (last[sid].intent /= "" /\ last[sid].classification.ok) =>
            LET reply == str_lower(last[sid].classification.text)
            IN  /\ last[sid].intent \in {"appointment_booking", "document_query"}
                /\ last[sid].intent =
                       IF str_in("appointment", reply) \/ str_in("booking", reply)
                       THEN "appointment_booking"
                       ELSE IF str_in("document", reply) \/ str_in("query", reply)
                       THEN "document_query"
                       ELSE IF HasAppointmentKeyword(last[sid].user_input)
                       THEN "appointment_booking"
                       ELSE "document_query"

C8_Witness ==
    \E sid \in DOMAIN sessions :
        /\ last[sid].classification = Reply("document_query, not appointment_booking")
        /\ last[sid].user_input = "What are your business hours?"
        /\ last[sid].intent = "appointment_booking"

\* C9: a booking turn on {name: "John Doe"} with the utterance "Email is
\* john.doe@example.com and phone 555-123-4567" records the email and the
\* phone, leaves the date unset, asks the date question and continues.
C9_EmailAndPhoneInOneTurn ==
    \A sid \in DOMAIN sessions :
        (/\ BookingTurnDone(sid)
         /\ last[sid].user_input = EmailPhoneUtterance
         /\ last[sid].appointment_before = ("name" :> "John Doe"))
            => /\ sessions[sid].appointment_data =
                      [name |-> "John Doe", phone |-> "5551234567",
                       email |-> "john.doe@example.com"]
               /\ str_endswith(last[sid].response, Question["date"])
               /\ QuestionCount(last[sid].response) = 1
               /\ last[sid].next_action = "continue"

C9_Witness ==
    \E sid \in DOMAIN sessions :
        /\ BookingTurnDone(sid)
        /\ last[sid].user_input = EmailPhoneUtterance
        /\ last[sid].appointment_before = ("name" :> "John Doe")
        /\ "email" \in DOMAIN sessions[sid].appointment_data
        /\ "phone" \in DOMAIN sessions[sid].appointment_data

\* C10: a booking turn on empty appointment data with the utterance "My name
\* is John Doe", the name extraction answering "John Doe", records the name
\* "John Doe", acknowledges it and asks for the phone number.
C10_NameScenario ==
    \A sid \in DOMAIN sessions :
        (/\ BookingTurnDone(sid)
         /\ last[sid].user_input = JohnDoeUtterance
         /\ last[sid].appointment_before = <<>>
         /\ last[sid].name_reply = Reply("John Doe"))
            => /\ sessions[sid].appointment_data = ("name" :> "John Doe")
               /\ last[sid].response =
                      "Got it! I've recorded your name as John Doe.\n\n" \o Question["phone"]
               /\ last[sid].next_action = "continue"

C10_Witness ==
    \E sid \in DOMAIN sessions :
        /\ BookingTurnDone(sid)
        /\ last[sid].user_input = JohnDoeUtterance
        /\ last[sid].appointment_before = <<>>
        /\ last[sid].name_reply = Reply("John Doe")
        /\ sessions[sid].appointment_data /= <<>>

\* a response that lists the four values and says the appointment is booked
IsConfirmationSummary(response, appointment_data) ==
    /\ str_in("Name: " \o appointment_data["name"] \o "\n", response)
    /\ str_in("Phone: " \o appointment_data["phone"] \o "\n", response)
    /\ str_in("Email: " \o appointment_data["email"] \o "\n", response)
    /\ str_in("Date: " \o appointment_data["date"] \o "\n", response)
    /\ str_in("Your appointment has been successfully booked!", response)

\* this step is a booking turn of sid on FullUtterance
FullBookingTurn(sid) ==
    /\ TurnTaken(sid)
    /\ last'[sid].intent = "appointment_booking"
    /\ last'[sid].user_input = FullUtterance

(***************************************************************************)
(* C11: from empty appointment data, a booking turn on an utterance from   *)
(* which all four fields are recognized completes the booking in that      *)
(* turn; the same utterance submitted again leaves the appointment data as *)
(* it was after the first turn and again returns a confirmation summary    *)
(* with next_action = "complete".                                          *)
(***************************************************************************)
C11_FullUtteranceIdempotent ==
    [][\A sid \in DOMAIN sessions :
          /\ ( /\ FullBookingTurn(sid)
               /\ sessions[sid].appointment_data = <<>>
               /\ NameExtractionOf[last'[sid].name_reply].valid )
             => /\ Complete(sessions'[sid].appointment_data)
                /\ sessions'[sid].appointment_data["phone"] = "5551234567"
                /\ sessions'[sid].appointment_data["email"] = "john.doe@example.com"
                /\ last'[sid].next_action = "complete"
                /\ IsConfirmationSummary(last'[sid].response, sessions'[sid].appointment_data)
          /\ ( /\ FullBookingTurn(sid)
               /\ last[sid].user_input = FullUtterance
               /\ last[sid].intent = "appointment_booking"
               /\ last[sid].appointment_before = <<>>
               /\ last[sid].next_action = "complete" )
             => /\ sessions'[sid].appointment_data = sessions[sid].appointment_data
                /\ last'[sid].next_action = "complete"
                /\ IsConfirmationSummary(last'[sid].response, sessions[sid].appointment_data)
      ]_vars

\* the utterance was submitted twice in a row and both turns completed
C11_Witness ==
    \E sid \in DOMAIN sessions :
        LET history == sessions[sid].conversation_history
        IN  /\ Len(history) = 2
            /\ history[1].user = FullUtterance
            /\ history[2].user = FullUtterance
            /\ last[sid].intent = "appointment_booking"
            /\ Complete(last[sid].appointment_before)
            /\ IsConfirmationSummary(history[1].assistant, sessions[sid].appointment_data)
            /\ last[sid].appointment_before = sessions[sid].appointment_data
            /\ last[sid].next_action = "complete"

\* the latest turn of sid ran the extraction steps
ExtractionTurnDone(sid) ==
    BookingTurnDone(sid) /\ ~Complete(last[sid].appointment_before)

\* the acknowledgment of a field recorded by the latest turn of sid
Acknowledgment(sid, field) ==
    LET value == sessions[sid].appointment_data[field]
    IN  CASE field = "name" -> "Got it! I've recorded your name as " \o value \o "."
          [] field = "phone" -> "Phone number recorded: " \o value
          [] field = "email" -> "Email recorded: " \o value
          [] field = "date" -> "Date recorded: " \o DateResultOf[last[sid].user_input, today].parsed_date

\* the fields the latest turn of sid recorded, in the order name, phone, email, date
RecordedFields(sid) ==
    SelectSeq(required_fields,
              LAMBDA field : /\ FieldMissing(last[sid].appointment_before, field)
                             /\ ~FieldMissing(sessions[sid].appointment_data, field))

(***************************************************************************)
(* C12: the response of a booking turn that performs extraction is the     *)
(* acknowledgments of the fields recorded in the turn, in the order name,  *)
(* phone, email, date, one per line and closed by a blank line, followed   *)
(* by the next question or, when no field is missing any more, by the      *)
(* completion summary.                                                     *)
(***************************************************************************)
C12_AcknowledgmentsThenQuestionOrSummary ==
    \A sid \in DOMAIN sessions :
        ExtractionTurnDone(sid) =>
            LET recorded == RecordedFields(sid)
                acks == [k \in 1..Len(recorded) |-> Acknowledgment(sid, recorded[k])]
                missing == missing_fields(sessions[sid].appointment_data)
            IN  last[sid].response =
                    (IF acks /= <<>> THEN JoinLines(acks) \o "\n\n" ELSE "")
                    \o (IF missing /= <<>> THEN Question[missing[1]]
                        ELSE BookedSummary(sessions[sid].appointment_data))

\* the part of C12 that holds: the turns that leave a field missing
C12_HoldsWhileFieldsAreMissing ==
    \A sid \in DOMAIN sessions :
        (ExtractionTurnDone(sid) /\ ~Complete(sessions[sid].appointment_data)) =>
            LET recorded == RecordedFields(sid)
                acks == [k \in 1..Len(recorded) |-> Acknowledgment(sid, recorded[k])]
                missing == missing_fields(sessions[sid].appointment_data)
            IN  last[sid].response =
                    (IF acks /= <<>> THEN JoinLines(acks) \o "\n\n" ELSE "") \o Question[missing[1]]

(***************************************************************************)
(* C13: with documents_content empty, for any query, query_documents       *)
(* returns exactly the fixed "no documents available" message and makes no *)
(* call to the completion service.                                         *)
(***************************************************************************)
C13_NoDocumentsNoCall ==
    \A sid \in DOMAIN sessions :
        (DocumentTurnDone(sid) /\ sessions[sid].documents_content = "") =>
            /\ last[sid].relevant_info = "No documents available to query. Please upload documents first."
            /\ \A k \in 1..Len(last[sid].calls) : last[sid].calls[k] /= "llm:query_documents"

C13_Witness ==
    \E sid \in DOMAIN sessions :
        /\ DocumentTurnDone(sid)
        /\ sessions[sid].documents_content = ""
        /\ last[sid].user_input = "What are your business hours?"
        /\ last[sid].relevant_info = NoDocumentsMessage
        /\ last[sid].calls = <<"llm:classify_intent", "llm:generate_answer">>

\* the indices of the lines of a document that contain a token of the lowercased query
MatchingLines(query, documents_content) ==
    LET lines == SplitOn(documents_content, "\n")
        tokens == str_split(str_lower(query))
    IN  {i \in 1..Len(lines) : \E t \in 1..Len(tokens) : str_in(tokens[t], str_lower(lines[i]))}

\* the first five (or fewer) matching lines, in document order, joined by newlines
FirstFiveMatching(query, documents_content) ==
    LET lines == SplitOn(documents_content, "\n")
        matching == MatchingLines(query, documents_content)
        kept == {i \in matching : Cardinality({j \in matching : j < i}) < 5}
        nth(k) == CHOOSE i \in kept : Cardinality({j \in kept : j < i}) = k - 1
    IN  JoinLines([k \in 1..Cardinality(kept) |-> lines[nth(k)]])

\* the latest turn of sid fell back to the keyword search
FallbackTurnDone(sid) ==
    /\ DocumentTurnDone(sid)
    /\ sessions[sid].documents_content /= ""
    /\ ~last[sid].extraction.ok

(***************************************************************************)
(* C14: when documents_content is not empty and the completion service     *)
(* call of query_documents fails, the result is the first five (or fewer)  *)
(* lines of the document, in document order, that contain a whitespace-    *)
(* split token of the lowercased query, joined by newlines, or the fixed    *)
(* "no relevant information" message when no line matches; the error does  *)
(* not appear in the result.                                               *)
(***************************************************************************)
C14_KeywordFallback ==
    \A sid \in DOMAIN sessions :
        FallbackTurnDone(sid) =>
            LET query == last[sid].user_input
                document == sessions[sid].documents_content
            IN  /\ last[sid].relevant_info =
                       IF MatchingLines(query, document) = {}
                       THEN "No relevant information found in the documents for your query."
                       ELSE FirstFiveMatching(query, document)
                /\ ~str_in(last[sid].extraction.error, last[sid].relevant_info)

\* seven lines of the document match and the first five are returned
C14_Witness ==
    \E sid \in DOMAIN sessions :
        /\ FallbackTurnDone(sid)
        /\ Cardinality(MatchingLines(last[sid].user_input, sessions[sid].documents_content)) = 7
        /\ last[sid].relevant_info =
               "Services: Web Development\nServices: Mobile Apps\nPricing is on request\n"
               \o "Services: Cloud Hosting\nServices: Data Analytics"

\* the latest turn of sid got a reply to the extraction prompt
ExtractionReplied(sid) ==
    /\ DocumentTurnDone(sid)
    /\ sessions[sid].documents_content /= ""
    /\ last[sid].extraction.ok

HasSentinel(text) == str_in("no relevant information found", str_lower(text))

(***************************************************************************)
(* C15 as stated: when the completion service replies to query_documents,  *)
(* the result is the fixed "no relevant information" message if and only   *)
(* if the reply contains the sentinel phrase (case-insensitively) and is    *)
(* shorter than 100 characters; in every other case the result is the      *)
(* reply verbatim.                                                         *)
(***************************************************************************)
C15_AsStated ==
    \A sid \in DOMAIN sessions :
        ExtractionReplied(sid) =>
            LET reply == last[sid].extraction.text
            IN  IF HasSentinel(reply) /\ Len(reply) < 100
                THEN last[sid].relevant_info = NoRelevantMessage
                ELSE /\ last[sid].relevant_info = reply
                     /\ last[sid].relevant_info /= NoRelevantMessage

(***************************************************************************)
(* C15: when the completion service replies to query_documents, the reply  *)
(* is first stripped of leading and trailing whitespace; the result is the *)
(* fixed "no relevant information" message if and only if the stripped     *)
(* reply contains the sentinel phrase (case-insensitively) and is shorter  *)
(* than 100 characters; in every other case, a stripped reply of 100 or    *)
(* more characters with the sentinel included, the result is the stripped  *)
(* reply.                                                                  *)
(***************************************************************************)
C15_StrippedReplyOrSentinel ==
    \A sid \in DOMAIN sessions :
        ExtractionReplied(sid) =>
            LET stripped == str_strip(last[sid].extraction.text)
            IN  IF HasSentinel(stripped) /\ Len(stripped) < 100
                THEN last[sid].relevant_info = "No relevant information found in the documents for your query."
                ELSE /\ last[sid].relevant_info = stripped
                     /\ last[sid].relevant_info /= NoRelevantMessage

\* a reply of 100 characters with the sentinel phrase is returned as it is
C15_Witness ==
    \E sid \in DOMAIN sessions :
        /\ ExtractionReplied(sid)
        /\ Len(last[sid].extraction.text) = 100
        /\ HasSentinel(last[sid].extraction.text)
        /\ last[sid].relevant_info = last[sid].extraction.text

\* the latest turn of sid was a booking turn whose name extraction call failed
NameCallFailed(sid) ==
    /\ BookingTurnDone(sid)
    /\ last[sid].name_reply /= NotCalled
    /\ ~last[sid].name_reply.ok

\* what the booking handler returns for the latest turn of sid when the name
\* extraction call gets the given outcome instead
BookingOutcomeWith(sid, name_reply) ==
    LET history == sessions[sid].conversation_history
        before == [sessions[sid] EXCEPT
                      !.appointment_data = last[sid].appointment_before,
                      !.conversation_history = SubSeq(history, 1, Len(history) - 1)]
        classified == classify_intent(InitialState(last[sid].user_input, before), last[sid].classification)
    IN  handle_appointment_booking(classified, name_reply, today)

(***************************************************************************)
(* C16: a failure of the completion service during name extraction is      *)
(* silently ignored: no name is recorded, the error does not appear in the *)
(* response, the phone, email and date steps still run on the utterance    *)
(* and record what they find, and the turn ends by asking for the name     *)
(* with next_action = "continue", as it does when the service answers      *)
(* "NOT_FOUND".                                                            *)
(***************************************************************************)
C16_NameFailureIgnored ==
    \A sid \in DOMAIN sessions :
        NameCallFailed(sid) =>
            LET data == sessions[sid].appointment_data
                before == last[sid].appointment_before
                user_input == last[sid].user_input
                not_found == BookingOutcomeWith(sid, Reply("NOT_FOUND"))
            IN  /\ FieldMissing(data, "name")
                /\ ~str_in(last[sid].name_reply.error, last[sid].response)
                /\ (FieldMissing(before, "phone") /\ PhoneExtractionOf[user_input].valid)
                      => data["phone"] = PhoneExtractionOf[user_input].value
                /\ (FieldMissing(before, "email") /\ EmailExtractionOf[user_input].valid)
                      => data["email"] = EmailExtractionOf[user_input].value
                /\ (FieldMissing(before, "date") /\ DateResultOf[user_input, today].valid)
                      => data["date"] = DateResultOf[user_input, today].value
                /\ str_endswith(last[sid].response, "Could you please provide your full name?")
                /\ last[sid].next_action = "continue"
                /\ data = not_found.appointment_data
                /\ last[sid].response = not_found.response
                /\ last[sid].next_action = not_found.next_action

\* the name call failed and the same utterance gave the phone and the email
C16_Witness ==
    \E sid \in DOMAIN sessions :
        /\ NameCallFailed(sid)
        /\ last[sid].user_input = EmailPhoneUtterance
        /\ last[sid].appointment_before = <<>>
        /\ sessions[sid].appointment_data = [phone |-> "5551234567", email |-> "john.doe@example.com"]
        /\ last[sid].response =
               "Phone number recorded: 5551234567\nEmail recorded: john.doe@example.com\n\n"
               \o "Could you please provide your full name?"

\* sid has completed a turn
TurnDone(sid) == last[sid] /= NoTurn

\* the outcomes of the service calls the latest turn of sid made
CallOutcomes(sid) ==
    {last[sid].classification, last[sid].name_reply, last[sid].extraction, last[sid].generation}
        \ {NotCalled}

(***************************************************************************)
(* C17: whichever calls of the completion service fail (classification,    *)
(* name extraction, excerpt retrieval, answer generation), the response of *)
(* the turn never contains the raw text of the error.                      *)
(***************************************************************************)
C17_NoRawErrorInResponse ==
    \A sid \in DOMAIN sessions :
        TurnDone(sid) =>
            \A outcome \in CallOutcomes(sid) :
                ~outcome.ok => ~str_in(outcome.error, last[sid].response)

\* the part of C17 that holds: the turns whose answer generation did not fail
C17_HoldsButForGeneration ==
    \A sid \in DOMAIN sessions :
        (TurnDone(sid) /\ (last[sid].generation = NotCalled \/ last[sid].generation.ok)) =>
            \A outcome \in CallOutcomes(sid) :
                ~outcome.ok => ~str_in(outcome.error, last[sid].response)

(***************************************************************************)
(* C18: whichever calls of the completion service fail, run_agent finishes *)
(* the turn: it returns an intent in {document_query, appointment_booking} *)
(* and a response, and a failure of the answer generation in a             *)
(* document_query turn yields an apologetic response with next_action =    *)
(* "complete".                                                             *)
(***************************************************************************)
C18_TurnSurvivesFailures ==
    \A sid \in DOMAIN sessions :
        TurnDone(sid) =>
            LET history == sessions[sid].conversation_history
            IN  /\ last[sid].intent \in {"document_query", "appointment_booking"}
                /\ last[sid].next_action \in {"continue", "complete"}
                /\ history[Len(history)].assistant = last[sid].response
                /\ (DocumentTurnDone(sid) /\ ~last[sid].generation.ok)
                      => /\ MatchAt("I apologize, but I encountered an error", last[sid].response, 1)
                         /\ last[sid].next_action = "complete"

\* a document turn in which the three calls it makes all failed
C18_Witness ==
    \E sid \in DOMAIN sessions :
        /\ DocumentTurnDone(sid)
        /\ ~last[sid].classification.ok
        /\ last[sid].extraction /= NotCalled /\ ~last[sid].extraction.ok
        /\ last[sid].generation /= NotCalled /\ ~last[sid].generation.ok
        /\ MatchAt("I apologize", last[sid].response, 1)
        /\ last[sid].next_action = "complete"

(***************************************************************************)
(* C19: conversation_history is append-only.  Every turn of a session, of  *)
(* either intent, appends exactly one pair, whose user is the turn's       *)
(* utterance and whose assistant is the response returned for the turn; no *)
(* step changes, reorders or removes an earlier entry, and a step that is  *)
(* not a turn of the session leaves its history as it is.                  *)
(***************************************************************************)
C19_HistoryAppendOnly ==
    [][\A sid \in DOMAIN sessions :
          /\ sid \in DOMAIN sessions'
          /\ LET history == sessions[sid].conversation_history
                 history_after == sessions'[sid].conversation_history
             IN  \/ history_after = history /\ last'[sid] = last[sid]
                 \/ /\ history_after =
                          Append(history, [user |-> last'[sid].user_input,
                                           assistant |-> last'[sid].response])
                    /\ last'[sid].intent \in {"document_query", "appointment_booking"}
      ]_vars

\* three turns, a booking turn and a document turn among them
C19_Witness ==
    \E sid \in DOMAIN sessions :
        LET history == sessions[sid].conversation_history
        IN  /\ Len(history) = 3
            /\ history[3] = [user |-> last[sid].user_input, assistant |-> last[sid].response]
            /\ history[1].user = JohnDoeUtterance
            /\ MatchAt("Got it!", history[1].assistant, 1)
            /\ DocumentTurnDone(sid)

\* the seconds since the last access of a stored session
IdleSeconds(sid) == clock - sessions[sid].last_accessed

\* the latest request ran cleanup_old_sessions, and no time has passed since
JustCleaned == http.request \in {"chat", "list"} /\ http.at = clock

\* this step serves a request that runs cleanup_old_sessions
CleanupStep == http'.request \in {"chat", "list"} /\ sessions' /= sessions

(***************************************************************************)
(* C20: whenever cleanup_old_sessions runs, every session whose last       *)
(* access lies more than SESSION_TIMEOUT (3600) seconds in the past is     *)
(* removed from the store, for every idle duration, those longer than one  *)
(* day included; and no session accessed within the timeout is removed.    *)
(***************************************************************************)
C20_CleanupRemovesExactlyTheExpired ==
    /\ [](JustCleaned => \A sid \in DOMAIN sessions : IdleSeconds(sid) <= 3600)
    /\ [][CleanupStep =>
             \A sid \in DOMAIN sessions : IdleSeconds(sid) <= 3600 => sid \in DOMAIN sessions']_vars

\* the part of C20 that holds: idle durations of less than one day
C20_HoldsWithinOneDay ==
    /\ [](JustCleaned =>
             \A sid \in DOMAIN sessions : IdleSeconds(sid) < 86400 => IdleSeconds(sid) <= 3600)
    /\ [][CleanupStep =>
             \A sid \in DOMAIN sessions : IdleSeconds(sid) <= 3600 => sid \in DOMAIN sessions']_vars

\* the characters validate_phone is said to remove
IsPhoneSeparator(c) == IsSpace(c) \/ c \in {"(", ")", "-", "+"}

OnlyPhoneSeparators(s) == \A i \in 1..Len(s) : IsPhoneSeparator(Char(s, i))

\* the written phone is its digits and separators, nothing else
CleanlyWritten(call) ==
    /\ OnlyPhoneSeparators(call.lead)
    /\ OnlyPhoneSeparators(call.trail)
    /\ Len(call.digits) > 3 => OnlyPhoneSeparators(call.sep)

PhoneValidated == last.function = "validate_phone"

NameValidated == last.function = "validate_name"

Failed(result) ==
    /\ ~result.valid
    /\ DOMAIN result = {"valid", "error"}
    /\ result.error /= ""

\* C21: validate_phone succeeds exactly when the input, once whitespace,
\* parentheses, hyphens and plus signs are removed, is 10 to 15 digits and
\* nothing else; the value is then that digit string; every other input fails
\* with an error message.
C21_PhoneValidExactlyFor10To15Digits ==
    PhoneValidated =>
        IF CleanlyWritten(last) /\ Len(last.digits) >= 10 /\ Len(last.digits) <= 15
        THEN last.result = [valid |-> TRUE, value |-> last.digits]
        ELSE Failed(last.result)

C21_Witness ==
    /\ PhoneValidated
    /\ last.input = "+ (123) 456) 789) 012) 345"
    /\ last.result = [valid |-> TRUE, value |-> "123456789012345"]

\* letters beyond a to z for which str.isalpha() holds
AccentedLetters == "éíëÉ"

IsAlphabetic(c) == IsLetter(c) \/ IsIn(c, AccentedLetters)

IsNamePunctuation(c) == c \in {".", "-", "'"}

\* C22: validate_name succeeds, with the trimmed input as value, for every
\* name of trimmed length 2 or more made of letters, whitespace, periods,
\* hyphens and apostrophes only; it fails for every name of trimmed length
\* below 2 and for every name with a digit or any other symbol.
C22_NameValidForLettersAndPunctuation ==
    NameValidated =>
        IF /\ Len(last.core) >= 2
           /\ \A i \in 1..Len(last.input) :
                  \/ IsAlphabetic(Char(last.input, i))
                  \/ IsSpace(Char(last.input, i))
                  \/ IsNamePunctuation(Char(last.input, i))
        THEN last.result = [valid |-> TRUE, value |-> last.core]
        ELSE Failed(last.result)

\* the same with "letters" read as the 52 letters a to z and A to Z
C22_HoldsForLettersAToZ ==
    NameValidated =>
        IF /\ Len(last.core) >= 2
           /\ \A i \in 1..Len(last.input) :
                  \/ IsLetter(Char(last.input, i))
                  \/ IsSpace(Char(last.input, i))
                  \/ IsNamePunctuation(Char(last.input, i))
        THEN last.result = [valid |-> TRUE, value |-> last.core]
        ELSE Failed(last.result)

C22_AccentedNameRejected ==
    /\ NameValidated
    /\ last.input = " José García"
    /\ ~last.result.valid

\* the datetime an ISO date names, and its day number
DateOfIso(iso) ==
    [year |-> ParseInt(SubSeq(iso, 1, 4)), month |-> ParseInt(SubSeq(iso, 6, 7)),
     day |-> ParseInt(SubSeq(iso, 9, 10))]

OrdinalOfIso(iso) ==
    (DateOfIso(iso).year - 2025) * 365 + DaysBeforeMonth(DateOfIso(iso).month)
        + DateOfIso(iso).day - 1

\* the calendar day after dt
NextCalendarDay(dt) ==
    IF dt.day < MonthLengths[dt.month] THEN [dt EXCEPT !.day = dt.day + 1]
    ELSE IF dt.month < 12 THEN [dt EXCEPT !.month = dt.month + 1, !.day = 1]
    ELSE [year |-> dt.year + 1, month |-> 1, day |-> 1]

DateResolved == last.function = "extract_date_from_natural_language"

\* C23: on any one day, the date resolved for "tomorrow" is the calendar day
\* after the date resolved for "today".
C23_TomorrowIsTheDayAfterToday ==
    (DateResolved /\ last.input \in TomorrowWords) =>
        \A word \in TodayWords :
            \E resolved \in {extract_date_from_natural_language(word, today)} :
                /\ resolved.valid
                /\ last.result.valid
                /\ DateOfIso(last.result.value) = NextCalendarDay(DateOfIso(resolved.value))
                /\ last.result.parsed_date
                       = strftime_long(NextCalendarDay(DateOfIso(resolved.value)))

\* "tomorrow" asked on the last day of 2025
C23_Witness ==
    /\ DateResolved
    /\ today = 364
    /\ last.input = " Tomorrow "
    /\ last.result.valid
    /\ last.result.value = "2026-01-01"
    /\ extract_date_from_natural_language("today", today).value = "2025-12-31"

WeekdayResolved == DateResolved /\ last.kind = "weekday"

PhraseResolved == DateResolved /\ last.kind = "phrase"

\* the text before the weekday phrase matches a branch tested earlier: the
\* "next week" rule, or the Wednesday branch when a later weekday is asked
EarlierBranchMatches(call) ==
    \/ call.lead = "next week or "
    \/ call.lead = "coming wednesday or " /\ call.asked > 2

DaysResolvedAhead == OrdinalOfIso(last.result.value) - today

\* C24: whatever the current weekday, an input with "next W" or "coming W"
\* that matches no earlier rule resolves to a date on weekday W that is 1 to
\* 7 days after today: never today, and 7 days ahead when today is a W.
C24_NextWeekdayStrictlyAfterToday ==
    (WeekdayResolved /\ ~EarlierBranchMatches(last)) =>
        /\ last.result.valid
        /\ DaysResolvedAhead \in 1..7
        /\ weekday(OrdinalOfIso(last.result.value)) = last.asked
        /\ weekday(today) = last.asked => DaysResolvedAhead = 7
        /\ last.result.value = strftime_iso(FromOrdinal(today + DaysResolvedAhead))

\* "coming Monday" asked on Monday 2025-01-06
C24_Witness ==
    /\ WeekdayResolved
    /\ today = 5
    /\ last.input = "How about COMING Monday at noon?"
    /\ last.result.valid
    /\ last.result.value = "2025-01-13"

\* C25: the rules apply in their listed order and the first match decides:
\* "today" and "tomorrow" match only as the whole trimmed, lower-cased input,
\* so an utterance that merely contains "tomorrow" and matches none of rules
\* 3 to 6 gets what the fuzzy parser makes of it, not the current date + 1;
\* an input with "next week" and "next <weekday>" resolves to the current
\* date + 7 days.
C25_RulesInPriorityOrder ==
    /\ (PhraseResolved /\ last.input \in TomorrowSentences) =>
           /\ last.result = FuzzyDate(last.input)
           /\ last.result.valid => DaysResolvedAhead /= 1
    /\ (PhraseResolved /\ last.input \in TodayWords) =>
           last.result.valid /\ DaysResolvedAhead = 0
    /\ (PhraseResolved /\ last.input \in TomorrowWords) =>
           last.result.valid /\ DaysResolvedAhead = 1
    /\ \A pair \in RulePairs :
           (PhraseResolved /\ last.input = pair[1]) =>
               last.result.valid /\ DaysResolvedAhead = pair[2]
    /\ (WeekdayResolved /\ last.lead = "next week or ") =>
           last.result.valid /\ DaysResolvedAhead = 7

\* the last utterance of test_context_switching, on a Wednesday
C25_Witness ==
    /\ PhraseResolved
    /\ today = 0
    /\ last.input = "Schedule it for tomorrow"
    /\ ~last.result.valid

\* "next week or next Monday" asked on a Wednesday: 7 days, not the 5 to Monday
C25_NextWeekBeforeWeekday ==
    /\ WeekdayResolved
    /\ today = 0
    /\ last.input = "next week or Next Monday"
    /\ last.result.value = "2025-01-08"

\* this step resumes the suspended upload
Resumed(upload) == upload \in uploads /\ uploads' = uploads \ {upload}

\* the request named a session that was in the store when it started
ForExistingSession(upload) == upload.requested = upload.session_id

\* C26: an upload for a session that exists when the request starts ends
\* with that session's documents_content replaced by the uploaded text,
\* whatever delete, chat and list requests ran while it was reading the
\* file: the session is still in the store when the content is written.
C26_UploadWritesToItsSession ==
    [][\A upload \in uploads :
          (Resumed(upload) /\ ForExistingSession(upload) /\ upload.file.utf8) =>
              /\ upload.session_id \in DOMAIN sessions
              /\ upload.session_id \in DOMAIN sessions'
              /\ sessions'[upload.session_id].documents_content = upload.file.text
              /\ http'.status = 200]_vars

\* with the session still in the store at the resumption, the content is written
C26_HoldsWhenSessionSurvives ==
    [][\A upload \in uploads :
          (Resumed(upload) /\ upload.file.utf8 /\ upload.session_id \in DOMAIN sessions) =>
              /\ sessions'[upload.session_id].documents_content = upload.file.text
              /\ http'.status = 200]_vars

\* an upload for s1 answered 500 after s1 was deleted under it
C26_UploadToDeletedSession ==
    /\ http.request = "upload"
    /\ http.requested = "s1"
    /\ http.status = 500
    /\ "s1" \notin DOMAIN sessions

\* the three keys of a stored session that belong to the conversation
SessionData(session) ==
    <<session.appointment_data, session.conversation_history, session.documents_content>>

\* C27: sessions are independent: under every interleaving of chat turns and
\* uploads, a request changes the appointment data, the history or the
\* document of no session but its own (the one a chat request names, the one
\* an upload resolved when it started); a session leaves the store only by
\* its own deletion or by the expiry test of a cleanup.
C27_OnlyTheNamedSessionChanges ==
    [][\A B \in DOMAIN sessions :
          /\ (B \in DOMAIN sessions' /\ SessionData(sessions'[B]) /= SessionData(sessions[B])) =>
                 \/ /\ http'.request = "chat"
                    /\ http'.requested = B
                    /\ http'.session_id = B
                 \/ /\ http'.request = "upload"
                    /\ http'.session_id = B
                    /\ \E upload \in uploads : Resumed(upload) /\ upload.session_id = B
          /\ B \notin DOMAIN sessions' =>
                 \/ http'.request = "delete" /\ http'.session_id = B
                 \/ http'.request \in {"chat", "list"} /\ Expired(sessions[B], clock)]_vars

\* a chat turn of s2 served while s1 holds a name, a turn and a document
C27_Witness ==
    /\ DOMAIN sessions = {"s1", "s2"}
    /\ http.request = "chat"
    /\ http.session_id = "s2"
    /\ Len(sessions["s2"].conversation_history) = 1
    /\ sessions["s2"].documents_content = ""
    /\ Len(sessions["s1"].conversation_history) = 1
    /\ ~FieldMissing(sessions["s1"].appointment_data, "name")
    /\ sessions["s1"].documents_content = SampleDocument

FieldNames == {"name", "phone", "email", "date"}

FilledFields(appointment_data) == {f \in FieldNames : ~FieldMissing(appointment_data, f)}

\* C28: across the turns of a session the collected fields are monotone: a
\* field that holds a non-empty value is never overwritten, emptied or
\* removed by a later turn, and the set of filled fields never shrinks.
C28_CollectedFieldsAreKept ==
    [][\A sid \in DOMAIN sessions :
          /\ sid \in DOMAIN sessions'
          /\ FilledFields(sessions[sid].appointment_data)
                 \subseteq FilledFields(sessions'[sid].appointment_data)
          /\ \A f \in FilledFields(sessions[sid].appointment_data) :
                 sessions'[sid].appointment_data[f] = sessions[sid].appointment_data[f]]_vars

\* a second phone number offered in a booking turn, the first one kept
C28_Witness ==
    /\ BookingTurnDone("s1")
    /\ last["s1"].user_input = "Call me on 555 987 6543"
    /\ Len(sessions["s1"].conversation_history) = 3
    /\ sessions["s1"].conversation_history[1].user = "My phone is 555-123-4567"
    /\ ~FieldMissing(sessions["s1"].appointment_data, "phone")
    /\ sessions["s1"].appointment_data["phone"] = "5551234567"

RECURSIVE BookingTurnsIn(_)
\* the booking turns of a history whose document turns all ask OpeningHoursQuery
BookingTurnsIn(history) ==
    IF history = <<>> THEN 0
    ELSE BookingTurnsIn(SubSeq(history, 1, Len(history) - 1))
             + (IF history[Len(history)].user = OpeningHoursQuery THEN 0 ELSE 1)

MissingCount(appointment_data) == Cardinality(FieldNames \ FilledFields(appointment_data))

\* C29: with a user who answers each question (and a service that answers
\* the name extraction), a session with k missing fields signals "complete"
\* after at most k booking turns, at most 4 from no data, however many
\* document turns come in between: every booking turn leaves at least one
\* field fewer missing, a document turn leaves the fields as they are, and
\* the booking turn that fills the last field signals "complete".
C29_CompleteWithinKBookingTurns ==
    /\ [](\A sid \in DOMAIN sessions :
             /\ MissingCount(sessions[sid].appointment_data)
                    <= SetMax({0, 4 - BookingTurnsIn(sessions[sid].conversation_history)})
             /\ BookingTurnDone(sid) =>
                    (MissingCount(sessions[sid].appointment_data) = 0
                         <=> last[sid].next_action = "complete"))
    /\ [][\A sid \in DOMAIN sessions :
             IF last'[sid].intent = "appointment_booking"
             THEN MissingCount(sessions'[sid].appointment_data)
                      <= SetMax({0, MissingCount(sessions[sid].appointment_data) - 1})
             ELSE sessions'[sid].appointment_data = sessions[sid].appointment_data]_vars

\* the fourth booking turn completes the booking, a document turn having come in between
C29_Witness ==
    /\ Len(sessions["s1"].conversation_history) = 5
    /\ BookingTurnsIn(sessions["s1"].conversation_history) = 4
    /\ sessions["s1"].conversation_history[3].user = OpeningHoursQuery
    /\ last["s1"].appointment_before /= sessions["s1"].appointment_data
    /\ MissingCount(sessions["s1"].appointment_data) = 0
    /\ last["s1"].next_action = "complete"

====
